---------------------------- MODULE Spec2Model ----------------------------
(***************************************************************************)
(* Model of the ExoAtlas data jobs.  First part: the MPCORB fixed-width    *)
(* record decoder of backend/datapipe/mpc_data_fetcher.py (classifier,     *)
(* column extraction, numeric parsing, designation parsing and the key     *)
(* computation of main's ingestion loop).                                  *)
(*                                                                         *)
(* Text is a sequence of one-character strings.  Python's None is the      *)
(* empty tuple and a present value v is the one-element tuple <<v>>.       *)
(***************************************************************************)
EXTENDS Integers, Sequences, FiniteSets, TLC

None == <<>>
Some(v) == <<v>>
IsNone(o) == o = <<>>
Val(o) == o[1]

SetMax(S) == CHOOSE x \in S : \A y \in S : x >= y

(***************************************************************************)
(* Characters                                                              *)
(***************************************************************************)
DigitChars == <<"0", "1", "2", "3", "4", "5", "6", "7", "8", "9">>
UpperChars == <<"A", "B", "C", "D", "E", "F", "G", "H", "I", "J", "K", "L", "M",
                "N", "O", "P", "Q", "R", "S", "T", "U", "V", "W", "X", "Y", "Z">>
LowerChars == <<"a", "b", "c", "d", "e", "f", "g", "h", "i", "j", "k", "l", "m",
                "n", "o", "p", "q", "r", "s", "t", "u", "v", "w", "x", "y", "z">>

Range(f) == {f[i] : i \in DOMAIN f}
IndexOf(seq, c) == CHOOSE i \in DOMAIN seq : seq[i] = c
DigitSet == Range(DigitChars)
UpperSet == Range(UpperChars)
LowerSet == Range(LowerChars)

\* str.isdigit / regex \d, on the ASCII characters of the model
IsDigit(c) == c \in DigitSet
DigitVal(c) == IndexOf(DigitChars, c) - 1
\* regex [A-Z]
IsUpper(c) == c \in UpperSet
\* str.upper of one character
ToUpper(c) == IF c \in LowerSet THEN UpperChars[IndexOf(LowerChars, c)] ELSE c
\* what str.strip(), str.split() and regex \s treat as whitespace
WhiteSpace == {" ", "\t", "\n", "\r", "\f"}
IsSpace(c) == c \in WhiteSpace
CRLF == {"\r", "\n"}

\* s[a:b] of Python, a and b 0-based, a <= b, clipped to the length of s
Slice(s, a, b) ==
    IF a >= Len(s) THEN <<>> ELSE SubSeq(s, a + 1, IF b < Len(s) THEN b ELSE Len(s))

\* the first position from i on, and the last position up to i, whose
\* character is not in S (Len(s) + 1 and 0 when there is none)
RECURSIVE FirstOut(_, _, _)
FirstOut(s, i, S) == IF i > Len(s) \/ s[i] \notin S THEN i ELSE FirstOut(s, i + 1, S)

RECURSIVE LastOut(_, _, _)
LastOut(s, i, S) == IF i < 1 \/ s[i] \notin S THEN i ELSE LastOut(s, i - 1, S)

\* str.strip(chars): drop leading and trailing characters that are in S
StripSet(s, S) == SubSeq(s, FirstOut(s, 1, S), LastOut(s, Len(s), S))

\* str.rstrip(chars)
RStripSet(s, S) == SubSeq(s, 1, LastOut(s, Len(s), S))

\* str.strip()
Strip(s) == StripSet(s, WhiteSpace)

\* " ".join(s.split()): runs of whitespace become one blank, ends trimmed
RECURSIVE Collapse(_, _)
Collapse(t, i) ==
    IF i > Len(t) THEN <<>>
    ELSE IF IsSpace(t[i])
         THEN (IF IsSpace(t[i - 1]) THEN <<>> ELSE <<" ">>) \o Collapse(t, i + 1)
         ELSE <<t[i]>> \o Collapse(t, i + 1)

JoinSplit(s) == LET t == Strip(s) IN IF t = <<>> THEN <<>> ELSE <<t[1]>> \o Collapse(t, 2)

\* s.startswith(p)
StartsWith(s, p) == Len(s) >= Len(p) /\ SubSeq(s, 1, Len(p)) = p

(***************************************************************************)
(* int() and float() of Python, and str() of an int                        *)
(***************************************************************************)
\* digits with optional single underscores between them; None when malformed
DigitPart(s) ==
    IF /\ s # <<>>
       /\ IsDigit(s[1]) /\ IsDigit(s[Len(s)])
       /\ \A i \in 1..Len(s) : IsDigit(s[i]) \/ s[i] = "_"
       /\ \A i \in 1..(Len(s) - 1) : ~(s[i] = "_" /\ s[i + 1] = "_")
    THEN Some(SelectSeq(s, IsDigit))
    ELSE None

RECURSIVE DigitsToNat(_)
DigitsToNat(ds) ==
    IF ds = <<>> THEN 0
    ELSE 10 * DigitsToNat(SubSeq(ds, 1, Len(ds) - 1)) + DigitVal(ds[Len(ds)])

\* Python's int has no width.  The minor-planet number, int(m.group("num")), is
\* kept as its decimal digits without leading zeros, and str() of it is those digits.
BigInt(ds) ==
    LET k == FirstOut(ds, 1, {"0"})
    IN IF k > Len(ds) THEN <<"0">> ELSE SubSeq(ds, k, Len(ds))

BigIntToStr(n) == n

HasSign(s) == s # <<>> /\ s[1] \in {"+", "-"}
Unsigned(s) == IF HasSign(s) THEN Tail(s) ELSE s
SignOf(s) == IF s # <<>> /\ s[1] = "-" THEN -1 ELSE 1

\* a decimal integer literal with an optional sign: Some(n), or None
IntLiteral(t) ==
    LET d == DigitPart(Unsigned(t))
    IN IF IsNone(d) THEN None ELSE Some(SignOf(t) * DigitsToNat(Val(d)))

\* int(text) of a base-10 literal: Some(n), or None where Python raises ValueError
PyInt(text) == IntLiteral(Strip(text))

RECURSIVE DropZeros(_, _)
\* the decimal m * 10^e with trailing zeros of m moved into e
DropZeros(m, e) ==
    IF m = 0 THEN <<"num", 0, 0>>
    ELSE IF m % 10 = 0 THEN DropZeros(m \div 10, e + 1) ELSE <<"num", m, e>>

\* the first position from i on whose character is in S (Len(s) + 1 when none)
RECURSIVE FirstIn(_, _, _)
FirstIn(s, i, S) == IF i > Len(s) \/ s[i] \in S THEN i ELSE FirstIn(s, i + 1, S)

UpperText(b) == [i \in 1..Len(b) |-> ToUpper(b[i])]

\* the digits of an integer or fraction part, which may be absent
OptDigits(x) == IF x = <<>> THEN Some(<<>>) ELSE DigitPart(x)

\* the value of sign, integer digits, fraction digits and exponent
FloatDigits(ipd, fpd, e, sgn) ==
    IF IsNone(ipd) \/ IsNone(fpd) THEN None
    ELSE IF Val(ipd) = <<>> /\ Val(fpd) = <<>> THEN None
    ELSE Some(DropZeros(sgn * DigitsToNat(Val(ipd) \o Val(fpd)), e - Len(Val(fpd))))

\* the mantissa text split at its first point (position k)
FloatParts(mant, k, e, sgn) ==
    FloatDigits(OptDigits(SubSeq(mant, 1, k - 1)),
                OptDigits(SubSeq(mant, k + 1, Len(mant))), e, sgn)

FloatMant(mant, ex, sgn) ==
    IF IsNone(ex) THEN None ELSE FloatParts(mant, FirstIn(mant, 1, {"."}), Val(ex), sgn)

\* the unsigned text split at its first exponent mark (position k)
FloatExp(b, k, sgn) ==
    IF k > Len(b) THEN FloatMant(b, Some(0), sgn)
    ELSE FloatMant(SubSeq(b, 1, k - 1), IntLiteral(SubSeq(b, k + 1, Len(b))), sgn)

FloatUnsigned(b, sgn) ==
    IF UpperText(b) \in {<<"I", "N", "F">>, <<"I", "N", "F", "I", "N", "I", "T", "Y">>}
    THEN Some(<<"inf", sgn, 0>>)
    ELSE IF UpperText(b) = <<"N", "A", "N">> THEN Some(<<"nan", 0, 0>>)
    ELSE FloatExp(b, FirstIn(b, 1, {"e", "E"}), sgn)

FloatSigned(t) == FloatUnsigned(Unsigned(t), SignOf(t))

\* float(text): Some(<<"num", m, e>>) for the decimal m * 10^e, Some(<<"inf", s, 0>>),
\* Some(<<"nan", 0, 0>>), or None where Python raises ValueError.  Exact for texts
\* whose value a double holds without overflow, which is every text of the widths
\* (at most 11 characters) that the decoder slices.
PyFloat(text) == FloatSigned(Strip(text))

\* mpc_data_fetcher.try_parse_float
try_parse_float(slice_text) == PyFloat(slice_text)

\* mpc_data_fetcher.try_parse_int
try_parse_int(slice_text) == PyInt(slice_text)


(***************************************************************************)
(* Column extraction                                                       *)
(***************************************************************************)
\* mpc_data_fetcher.extract_packed_designation: the readable designation of
\* columns [166,194), stripped; None for a short line or an empty slice
extract_packed_designation(line) ==
    IF line = <<>> \/ Len(line) < 170 THEN None
    ELSE LET d == Strip(Slice(line, 166, 194))
         IN IF d = <<>> THEN None ELSE Some(d)

\* extract_basic_fields keeping the line end in raw
extract_basic_fields_keeps_eol(line) ==
    LET long == Len(line) >= 19
    IN [packed_desig |-> extract_packed_designation(line),
        raw          |-> line,
        h            |-> IF long THEN try_parse_float(Slice(line, 8, 13)) ELSE None,
        g            |-> IF long THEN try_parse_float(Slice(line, 14, 19)) ELSE None]

\* mpc_data_fetcher.extract_basic_fields: (packed_desig, raw, h, g)
extract_basic_fields(line) ==
    LET long == Len(line) >= 19
    IN [packed_desig |-> extract_packed_designation(line),
        raw          |-> RStripSet(line, CRLF),
        h            |-> IF long THEN try_parse_float(Slice(line, 8, 13)) ELSE None,
        g            |-> IF long THEN try_parse_float(Slice(line, 14, 19)) ELSE None]

ElementNames == {"mean_anomaly_deg", "arg_perihelion_deg", "long_asc_node_deg",
                 "inclination_deg", "eccentricity", "mean_daily_motion_deg",
                 "semimajor_axis_au"}

\* the 0-based half-open column range of each field the decoder slices
Columns ==
    [h_mag                 |-> <<8, 13>>,
     g_slope               |-> <<14, 19>>,
     epoch_mjd             |-> <<20, 25>>,
     mean_anomaly_deg      |-> <<26, 35>>,
     arg_perihelion_deg    |-> <<37, 46>>,
     long_asc_node_deg     |-> <<48, 57>>,
     inclination_deg       |-> <<59, 68>>,
     eccentricity          |-> <<70, 79>>,
     mean_daily_motion_deg |-> <<80, 91>>,
     semimajor_axis_au     |-> <<92, 103>>,
     readable              |-> <<166, 194>>]

ColStart(f) == Columns[f][1]
ColEnd(f) == Columns[f][2]

\* ElementOf with the length test off by one
ElementOf_strict(line, f) ==
    IF Len(line) > ColEnd(f)
    THEN try_parse_float(Slice(line, ColStart(f), ColEnd(f)))
    ELSE None

\* one entry of extract_orbital_elements: the slice is parsed when the line
\* reaches the end of the field's columns
ElementOf(line, f) ==
    IF Len(line) >= ColEnd(f)
    THEN try_parse_float(Slice(line, ColStart(f), ColEnd(f)))
    ELSE None

\* extract_orbital_elements giving up on the record when one element fails to
\* parse, as parse_mpcorb_dat of scripts/update_minor_planets.py does
extract_orbital_elements_all_or_nothing(line) ==
    [f \in ElementNames \cup {"epoch_mjd"} |->
        IF \E x \in ElementNames : IsNone(ElementOf(line, x)) THEN None
        ELSE IF f = "epoch_mjd"
        THEN (IF Len(line) >= 25 THEN try_parse_int(Slice(line, 20, 25)) ELSE None)
        ELSE ElementOf(line, f)]

\* mpc_data_fetcher.extract_orbital_elements
extract_orbital_elements(line) ==
    [f \in ElementNames \cup {"epoch_mjd"} |->
        IF f = "epoch_mjd"
        THEN (IF Len(line) >= 25 THEN try_parse_int(Slice(line, 20, 25)) ELSE None)
        ELSE ElementOf(line, f)]

(***************************************************************************)
(* Designation parsing                                                     *)
(***************************************************************************)
\* the text after position p matches  .+$  : one or more characters other than
\* a newline, up to the end or to a final newline
DotPlusEnd(r) ==
    /\ r # <<>>
    /\ LET x == IF r[Len(r)] = "\n" THEN SubSeq(r, 1, Len(r) - 1) ELSE r
       IN x # <<>> /\ \A i \in 1..Len(x) : x[i] # "\n"

\* the length of the longest run of characters satisfying a set, from position p
RunLen(s, p, S) == FirstOut(s, p, S) - p

\* _NUMBERED_RE.match(s) for ^\(?(?P<num>\d+)\)?\s+(?P<name>.+)$ :
\* None, or the groups num and name
NUMBERED_RE(s) ==
    LET p  == IF s # <<>> /\ s[1] = "(" THEN 2 ELSE 1
        nd == RunLen(s, p, DigitSet)
        q0 == p + nd
        q  == IF q0 <= Len(s) /\ s[q0] = ")" THEN q0 + 1 ELSE q0
        nw == RunLen(s, q, WhiteSpace)
        \* \s+ is greedy: the longest run of whitespace that leaves a match for .+$
        ks == {k \in 1..nw : DotPlusEnd(SubSeq(s, q + k, Len(s)))}
    IN IF nd = 0 \/ ks = {} THEN None
       ELSE LET r == SubSeq(s, q + SetMax(ks), Len(s))
            IN Some([num  |-> SubSeq(s, p, q0 - 1),
                     name |-> IF r[Len(r)] = "\n" THEN SubSeq(r, 1, Len(r) - 1) ELSE r])

\* the half-month code of _PROV_RE:  [A-Z]{1,2}\d{0,4}[A-Z]?
ProvCode(c) ==
    \E a \in 1..2, d \in 0..4, z \in 0..1 :
        /\ Len(c) = a + d + z
        /\ \A i \in 1..a : IsUpper(c[i])
        /\ \A i \in (a + 1)..(a + d) : IsDigit(c[i])
        /\ \A i \in (a + d + 1)..(a + d + z) : IsUpper(c[i])

\* _PROV_RE.match(s) for ^(?P<year>\d{4})\s+(?P<code>[A-Z]{1,2}\d{0,4}[A-Z]?)$
PROV_RE(s) ==
    /\ Len(s) >= 6
    /\ \A i \in 1..4 : IsDigit(s[i])
    /\ LET nw == RunLen(s, 5, WhiteSpace)
           r  == SubSeq(s, 5 + nw, Len(s))
       IN /\ nw >= 1
          /\ r # <<>>
          /\ ProvCode(IF r[Len(r)] = "\n" THEN SubSeq(r, 1, Len(r) - 1) ELSE r)

\* NumberedName without the second strip of line 243
NumberedName_unstripped(group) ==
    LET name == Strip(group)
    IN IF StartsWith(name, <<")">>) /\ Len(name) > 1 THEN Tail(name) ELSE name

\* the name of a numbered object: the group stripped, one stray ")" dropped
NumberedName(group) ==
    LET name == Strip(group)
    IN IF StartsWith(name, <<")">>) /\ Len(name) > 1 THEN Strip(Tail(name)) ELSE name

\* NumberedIdentity with the key left null, as for a provisional object
NumberedIdentity_null_id(m) ==
    [mp_number  |-> Some(BigInt(m.num)),
     prov_desig |-> None,
     name       |-> Some(NumberedName(m.name)),
     object_id  |-> None]

\* the identity of a numbered object, from the groups of _NUMBERED_RE
NumberedIdentity(m) ==
    [mp_number  |-> Some(BigInt(m.num)),
     prov_desig |-> None,
     name       |-> Some(NumberedName(m.name)),
     object_id  |-> Some(BigInt(m.num))]

\* the identity of a provisional-only designation
ProvisionalIdentity(s) ==
    [mp_number |-> None, prov_desig |-> Some(s), name |-> Some(s), object_id |-> None]

\* the fallback: the whole text is a display name
FallbackIdentity(s) ==
    [mp_number |-> None, prov_desig |-> None, name |-> Some(s), object_id |-> None]

EmptyIdentity ==
    [mp_number |-> None, prov_desig |-> None, name |-> None, object_id |-> None]

AllDigits(t) == \A i \in 1..Len(t) : IsDigit(t[i])

\* the branches of parse_readable_designation on the normalized text s
IdentityOf(s, m) ==
    IF s = <<>> THEN EmptyIdentity
    ELSE IF ~IsNone(m) /\ AllDigits(Val(m).num) THEN NumberedIdentity(Val(m))
    ELSE IF PROV_RE(s) THEN ProvisionalIdentity(s)
    ELSE FallbackIdentity(s)

NormalizedIdentity(s) == IdentityOf(s, NUMBERED_RE(s))

\* mpc_data_fetcher.parse_readable_designation
parse_readable_designation(readable) == NormalizedIdentity(JoinSplit(readable))

(***************************************************************************)
(* Classifier                                                              *)
(***************************************************************************)
\* is_data_line with the width test off by one
is_data_line_ge(line) ==
    LET s == StripSet(line, CRLF)
    IN IF line = <<>> THEN FALSE
       ELSE IF s = <<>> THEN FALSE
       ELSE IF StartsWith(s, <<"#">>) \/ StartsWith(s, <<"-", "-", "-">>) THEN FALSE
       ELSE Len(s) >= 40

\* is_data_line without the test for a divider line
is_data_line_hash_only(line) ==
    LET s == StripSet(line, CRLF)
    IN IF line = <<>> THEN FALSE
       ELSE IF s = <<>> THEN FALSE
       ELSE IF StartsWith(s, <<"#">>) THEN FALSE
       ELSE Len(s) > 40

\* mpc_data_fetcher.is_data_line
is_data_line(line) ==
    LET s == StripSet(line, CRLF)
    IN IF line = <<>> THEN FALSE
       ELSE IF s = <<>> THEN FALSE
       ELSE IF StartsWith(s, <<"#">>) \/ StartsWith(s, <<"-", "-", "-">>) THEN FALSE
       ELSE Len(s) > 40

(***************************************************************************)
(* One pass of the body of main's ingestion loop over a line               *)
(***************************************************************************)
\* text or default, for a text that may be None or empty
OrElse(o, default) == IF IsNone(o) \/ Val(o) = <<>> THEN default ELSE o

\* not x, for a text that may be None or empty
Falsy(o) == IsNone(o) \/ Val(o) = <<>>

\* DbObjectId without the fall back to the name
DbObjectId_no_name(parsed) ==
    IF ~IsNone(parsed.object_id) THEN Some(BigIntToStr(Val(parsed.object_id)))
    ELSE parsed.prov_desig

\* db_object_id = str(object_id) if object_id is not None else (prov_desig or name)
DbObjectId(parsed) ==
    IF ~IsNone(parsed.object_id) THEN Some(BigIntToStr(Val(parsed.object_id)))
    ELSE OrElse(parsed.prov_desig, parsed.name)

\* the tuple appended to the buffer
RowOf(key, parsed, basic, elems) ==
    [object_id    |-> Val(key),
     mp_number    |-> parsed.mp_number,
     prov_desig   |-> parsed.prov_desig,
     name         |-> Val(parsed.name),
     packed_desig |-> basic.packed_desig,
     raw_line     |-> basic.raw,
     h_mag        |-> basic.h,
     g_slope      |-> basic.g,
     elems        |-> elems]

\* KeyedRow without the skip of a line that has no key or no name
KeyedRow_no_skip(line, basic, parsed) ==
    Some(RowOf(OrElse(DbObjectId(parsed), Some(<<>>)),
               [parsed EXCEPT !.name = OrElse(parsed.name, Some(<<>>))],
               basic, extract_orbital_elements(line)))

\* KeyedRow giving up on a record none of whose elements parsed
KeyedRow_needs_elements(line, basic, parsed) ==
    IF Falsy(DbObjectId(parsed)) \/ Falsy(parsed.name) THEN None
    ELSE IF \A f \in ElementNames : IsNone(extract_orbital_elements(line)[f]) THEN None
    ELSE Some(RowOf(DbObjectId(parsed), parsed, basic, extract_orbital_elements(line)))

\* the body of the loop from the key on: None when the line is skipped as malformed
KeyedRow(line, basic, parsed) ==
    IF Falsy(DbObjectId(parsed)) \/ Falsy(parsed.name) THEN None
    ELSE Some(RowOf(DbObjectId(parsed), parsed, basic, extract_orbital_elements(line)))

ParsedRow(line, basic) ==
    KeyedRow(line, basic, parse_readable_designation(OrElse(basic.packed_desig, Some(<<>>))[1]))

\* None when the line is skipped, else the tuple appended to the buffer
MainRow(line) ==
    IF ~is_data_line(line) THEN None ELSE ParsedRow(line, extract_basic_fields(line))

(***************************************************************************)
(* Input lines.  The catalog is an external file, so the lines are drawn   *)
(* from bounded families built around the record of (1) Ceres: arbitrary   *)
(* designation texts in columns [166,194), malformed numeric columns,      *)
(* packed-epoch codes, every truncation of the record, and blank lines.    *)
(***************************************************************************)
CeresLine ==
    <<"0", "0", "0", "0", "1", " ", " ", " ", " ", "3", ".", "3", "4", " ", " ", "0",
      ".", "1", "2", " ", "K", "2", "0", "7", "1", " ", " ", "9", "3", ".", "5", "5",
      "4", "7", "8", " ", " ", " ", "7", "2", ".", "5", "9", "5", "3", "3", " ", " ",
      " ", "8", "0", ".", "3", "9", "1", "0", "9", " ", " ", " ", "1", "0", ".", "5",
      "8", "8", "2", "0", " ", " ", "0", ".", "0", "7", "9", "1", "8", "4", "9", " ",
      " ", "0", ".", "2", "1", "4", "1", "8", "4", "1", "7", " ", " ", " ", "2", ".",
      "7", "6", "5", "2", "6", "6", "4", " ", " ", "0", " ", "M", "P", "O", "9", "0",
      "3", "7", "3", "1", " ", " ", "7", "2", "5", "8", " ", " ", "9", "4", " ", "1",
      "8", "0", "2", "-", "2", "0", "2", "3", " ", "0", ".", "5", "9", " ", "M", "-",
      "v", " ", "3", "0", "h", " ", "M", "P", "C", "W", " ", " ", " ", " ", " ", " ",
      " ", "0", "0", "0", "0", " ", " ", " ", " ", " ", " ", "(", "1", ")", " ", "C",
      "e", "r", "e", "s", " ", " ", " ", " ", " ", " ", " ", " ", " ", " ", " ", " ",
      " ", " ", "2", "0", "2", "3", "0", "6", "1", "3">>

NumericFields == ElementNames \cup {"h_mag", "g_slope"}

\* the value each numeric column of CeresLine holds, as a decimal m * 10^e
CeresValue ==
    [h_mag                 |-> <<"num", 334, -2>>,
     g_slope               |-> <<"num", 12, -2>>,
     mean_anomaly_deg      |-> <<"num", 9355478, -5>>,
     arg_perihelion_deg    |-> <<"num", 7259533, -5>>,
     long_asc_node_deg     |-> <<"num", 8039109, -5>>,
     inclination_deg       |-> <<"num", 105882, -4>>,
     eccentricity          |-> <<"num", 791849, -7>>,
     mean_daily_motion_deg |-> <<"num", 21418417, -8>>,
     semimajor_axis_au     |-> <<"num", 27652664, -7>>]

\* column contents that are not numbers
BadTexts == << <<"a", "b", "c">>, <<"1", ".", "2", ".", "3">>, <<>>,
               <<"1", ",", "5">>, <<"-", "-", "1">> >>

Blanks(n) == [i \in 1..n |-> " "]

\* text, right-justified in a column of the given width
RightJustify(text, width) == Blanks(width - Len(text)) \o text

\* text, left-justified in a column of the given width
LeftJustify(text, width) == text \o Blanks(width - Len(text))

\* line with the columns [start, start + Len(text)) overwritten by text
Overlay(line, start, text) ==
    [i \in 1..Len(line) |->
        IF i > start /\ i <= start + Len(text) THEN text[i - start] ELSE line[i]]

RECURSIVE OverlayBad(_, _, _)
OverlayBad(line, fields, text) ==
    IF fields = {} THEN line
    ELSE LET f == CHOOSE x \in fields : TRUE
         IN OverlayBad(Overlay(line, ColStart(f),
                               RightJustify(text, ColEnd(f) - ColStart(f))),
                       fields \ {f}, text)

\* the pieces designation texts are assembled from
DesigTokens == << <<"(">>, <<")">>, <<" ">>, <<"\t">>, <<"1">>,
                  <<"1", "9", "9", "8">>, <<"A">> >>
MaxDesigTokens == 4

RECURSIVE Concat(_)
Concat(ts) == IF ts = <<>> THEN <<>> ELSE Head(ts) \o Concat(Tail(ts))

\* the texts of up to max tokens
TokenTexts(max) ==
    UNION {{Concat(ts) : ts \in [1..n -> Range(DesigTokens)]} : n \in 0..max}

\* designations of the catalog and of the specification's scenarios, and
\* texts with the shapes the token texts are too short for
NamedTexts ==
    {<<"(", "1", ")", " ", "C", "e", "r", "e", "s">>,
     <<"(", "1", "0", "0", "0", "0", "0", ")", " ", "A", "s", "t", "r", "o", "n", "a", "u", "t", "i", "c", "a">>,
     <<"1", "0", "0", "0", "0", "0", " ", "A", "s", "t", "r", "o", "n", "a", "u", "t", "i", "c", "a">>,
     <<"2", "0", "1", "4", " ", "O", "D", "4", "3", "6">>,
     <<"2", "0", "1", "4", " ", "A", "B", "1">>,
     <<"1", "9", "9", "8", " ", "K", "D", "3">>,
     <<"2", "0", "0", "4", " ", "M", "N", "4">>,
     <<"2", "0", "1", "0", " ", "A", "B">>,
     <<"2", "0", "0", "0", " ", "S", "G", "3", "4", "4">>,
     <<"?", "?", "?">>,
     <<"C", "e", "r", "e", "s", " ", "C", "e", "r", "e", "s", " ", "C", "e", "r", "e", "s">>,
     <<"1", " ", ")", " ", "A">>,
     <<"(", "1", ")", " ", ")", " ", "A">>,
     <<"1", " ", "2", " ", "A">>,
     <<"(", "1", ")", " ", "(", "2", ")", " ", "F", "o", "o">>,
     <<"2", "0", "1", "4", " ", "A", "1", "2", "3", "4", "5">>,
     <<"2", "0", "1", "4", " ", "A", "B", "C", "1">>,
     <<"2", "0", "1", "4", " ", "o", "d", "4", "3", "6">>,
     <<"0", "0", "7", " ", "B", "o", "n", "d">>,
     <<"(", "2", ")", " ", "P", "a", "l", "l", "a", "s">>,
     <<"(", "1", "0", "0", "0", "0", "1", ")", " ", "1", "9", "9", "8", " ", "K", "D", "3">>}

DesigTexts(max) == TokenTexts(max) \cup NamedTexts

\* packed-epoch codes: century, two year characters, month code, day code
EpochCenturies == {"I", "J", "K", "L", "H", "M", "2"}
EpochYears == {<<"0", "0">>, <<"1", "3">>, <<"2", "0">>, <<"9", "9">>, <<"1", "A">>}
EpochMonths == {"0", "1", "2", "4", "9", "A", "B", "C", "D"}
EpochDays == {"0", "1", "9", "A", "I", "S", "T", "U", "V", "W"}
EpochCodes ==
    {<<c>> \o y \o <<m, d>> : c \in EpochCenturies, y \in EpochYears,
                              m \in EpochMonths, d \in EpochDays}
    \cup {<<"6", "0", "0", "0", "0">>, <<" ", "1", "2", "3", "4">>,
          <<"+", "1", "2", "3", "4">>, <<"1", "_", "2", "3", "4">>,
          <<" ", " ", " ", "-", "5">>, <<" ", " ", " ", " ", " ">>,
          <<"K", "2", "0", "7", " ">>, <<"5", "6", "4", "0", "0">>}

LineEnds == {<<>>, <<"\n">>, <<"\r", "\n">>}
MaxBadFields == 2

Input(fam, desig, bad, flavour, epoch, len, fill, eol) ==
    [fam |-> fam, desig |-> desig, bad |-> bad, flavour |-> flavour,
     epoch |-> epoch, len |-> len, fill |-> fill, eol |-> eol]

CeresDesig == <<"(", "1", ")", " ", "C", "e", "r", "e", "s">>
CeresEpoch == <<"K", "2", "0", "7", "1">>

\* what a header or divider line of the catalog starts with, and near misses
LineHeads == [hash |-> <<"#">>, rule |-> <<"-", "-", "-">>, dashes |-> <<"-", "-">>,
              indented |-> <<" ", "#">>]
CommentLengths == (0..5) \cup (39..45) \cup {Len(CeresLine)}

\* designations written after the record instead of in its columns: the record
\* is cut at a column of TailCuts and the text follows a blank
TailTexts == {<<"(", "1", "2", "3", "4", "5", ")", " ", "S", "o", "m", "e", "N", "a", "m", "e">>,
              <<"(", "1", ")", " ", "C", "e", "r", "e", "s">>}
TailCuts == {150, ColStart("readable"), ColEnd("readable")}

\* the inputs with designations of up to tokens tokens and up to bad malformed
\* numeric fields
Inputs(tokens, bad) ==
    {Input("desig", d, {}, 1, CeresEpoch, Len(CeresLine), " ", <<"\n">>) :
        d \in DesigTexts(tokens)}
    \cup {Input("fields", CeresDesig, b, k, CeresEpoch, n, " ", <<"\n">>) :
            b \in {x \in SUBSET NumericFields : Cardinality(x) <= bad},
            k \in 1..Len(BadTexts),
            n \in {ColEnd(f) : f \in NumericFields} \cup {Len(CeresLine)}}
    \cup {Input("epoch", CeresDesig, {}, 1, e, n, " ", <<"\n">>) :
            e \in EpochCodes, n \in {24, Len(CeresLine)}}
    \cup {Input("trunc", CeresDesig, {}, 1, CeresEpoch, n, " ", eol) :
            n \in 0..Len(CeresLine), eol \in LineEnds}
    \cup {Input("blank", <<>>, {}, 1, <<>>, n, c, eol) :
            n \in 0..Len(CeresLine), c \in {" ", "\t"}, eol \in LineEnds}
    \cup {Input("comment", CeresDesig, {}, 1, CeresEpoch, n, h, eol) :
            n \in CommentLengths, h \in DOMAIN LineHeads, eol \in LineEnds}
    \cup {Input("allbad", d, NumericFields, k, CeresEpoch, Len(CeresLine), " ", eol) :
            d \in NamedTexts, k \in 1..Len(BadTexts), eol \in LineEnds}
    \cup {Input("tail", d, {}, 1, CeresEpoch, n, " ", eol) :
            d \in TailTexts, n \in TailCuts, eol \in LineEnds}

\* the line an input stands for
BuildLine(in) ==
    IF in.fam = "blank" THEN [i \in 1..in.len |-> in.fill] \o in.eol
    ELSE IF in.fam = "comment"
    THEN SubSeq(Overlay(CeresLine, 0, LineHeads[in.fill]), 1, in.len) \o in.eol
    ELSE IF in.fam = "tail"
    THEN SubSeq(Overlay(CeresLine, ColStart("readable"),
                        Blanks(ColEnd("readable") - ColStart("readable"))), 1, in.len)
             \o <<" ">> \o in.desig \o in.eol
    ELSE LET a == Overlay(CeresLine, ColStart("readable"),
                          LeftJustify(in.desig, ColEnd("readable") - ColStart("readable")))
             b == Overlay(a, ColStart("epoch_mjd"), in.epoch)
             c == OverlayBad(b, in.bad, BadTexts[in.flavour])
         IN SubSeq(c, 1, in.len) \o in.eol


(***************************************************************************)
(* The decoder applied to one input line: each function of the decoder is  *)
(* applied to the line (parse_readable_designation to the designation      *)
(* text), then the body of main's loop decides whether the line yields a   *)
(* row.                                                                    *)
(***************************************************************************)
VARIABLES
    input,      \* the description of the line read
    line,       \* the line, with its line end
    readable,   \* the designation text of the line
    pc,         \* the function applied next
    is_data,    \* is_data_line(line)
    basic,      \* extract_basic_fields(line)
    parsed,     \* parse_readable_designation(readable)
    elems,      \* extract_orbital_elements(line)
    row         \* the row main appends to its buffer for the line, or None

decvars == <<input, line, readable, pc, is_data, basic, parsed, elems, row>>

(***************************************************************************)
(* The jobs.  One behaviour follows one script: the MPC ingestion          *)
(* (mpc_data_fetcher.main) or the planets job (update_planets.main), run   *)
(* and then run again against the table the first run left.                *)
(***************************************************************************)
VARIABLES
    job,            \* what the behaviour follows: "decoder", "mpc", "planets", "export",
                    \* "http_get", "safe_get", "tweet" or "sbdb"
    cfg,            \* MAX_ROWS_INGEST and UPSERT_BATCH_SIZE of the environment
    run,            \* "first" or "again"
    full,           \* the catalog the run downloads, as line descriptions
    catalog,        \* the lines the loop has not read yet
    buffer,         \* the rows collected for the next batch
    total,          \* the rows upserted by this run
    reached_limit,  \* the loop stopped at MAX_ROWS_INGEST
    table,          \* mpc_objects_raw: a set of rows
    sent,           \* every row passed to upsert_rows so far, in order
    mpc_pc,         \* "loop", "flush", "done" or "failed"
    prev            \* catalog and row count of the run before, when it completed

mpcvars == <<cfg, run, full, catalog, buffer, total, reached_limit, table, sent,
             mpc_pc, prev>>

VARIABLES
    pl_pc,          \* the step of update_planets.main: "fetch", "csv", "upsert",
                    \* "gcs", "r2", "done" or "aborted"
    pl_run,         \* "first" or "again"
    pl_day,         \* the day of the run, which is the epoch of the elements
    pl_rows,        \* the rows horizons_fetch_planets returned
    r2_settings,    \* every R2 setting is present
    planet_catalog, \* public.planet_catalog: a set of rows
    pl_sent,        \* the rows stored by pg_upsert so far, in order
    pl_log,         \* the steps attempted by this run, each with its outcome
    pl_ret,         \* what main returned
    pl_prev         \* rows and row count of the run before, when it loaded them

plvars == <<pl_pc, pl_run, pl_day, pl_rows, r2_settings, planet_catalog, pl_sent,
            pl_log, pl_ret, pl_prev>>
VARIABLES
    ex_pc,          \* export_json_shards_and_manifest: "loop", "flush_numbered",
                    \* "flush_provisional", "manifest", "done", "skipped", "failed"
    ex_cfg,         \* R2_MAX_JSON_RECORDS, MAX_ROWS_INGEST, and whether R2 is set
    ex_cursor,      \* the rows the cursor has not yielded yet
    ex_read,        \* the rows read from the cursor, in order
    counts,         \* counts[category]
    shard_idx,      \* shard_idx[category]
    shard_buf,      \* shard_buf[category]
    manifest,       \* manifest["categories"][category]: the shards listed
    uploaded,       \* the shard files uploaded to R2, in order
    rows_yielded,   \* rows_yielded
    index_json      \* the manifest file uploaded, when it has been

exvars == <<ex_pc, ex_cfg, ex_cursor, ex_read, counts, shard_idx, shard_buf, manifest,
            uploaded, rows_yielded, index_json>>
VARIABLES
    hg_pc,          \* naif_id_export._http_get: "loop", "returned" or "raised"
    hg_attempt,     \* attempt
    hg_responses,   \* what each requests.get so far gave, in order
    last_err        \* last_err

hgvars == <<hg_pc, hg_attempt, hg_responses, last_err>>

VARIABLES
    sg_pc,          \* spacetrack _safe_get: "loop", "returned", "raised_http",
                    \* "raised_get" or "raised_runtime"
    sg_attempt,     \* attempt
    sg_responses    \* what each S.get so far gave, in order

sgvars == <<sg_pc, sg_attempt, sg_responses>>

VARIABLES
    tw_now,         \* the time of the next run of daily_tweet.main: the day in
                    \* US/Eastern and the day in UTC
    reports,        \* the lines of reports.txt
    tw_posted,      \* the tweets created, each with its today_key
    tw_exit         \* the exit status of the last run

twvars == <<tw_now, reports, tw_posted, tw_exit>>

VARIABLES
    sb_pc,          \* fetch_sbdb: "asteroids", "comets_query", "comets", "dedup",
                    \* "returned" or "raised"
    sb_in,          \* the arguments and what the SBDB queries answer
    sb_todo,        \* the records of the current answer not looked at yet
    sb_rows,        \* rows
    sb_from,        \* for each element of sb_rows, the record it was made from
    sb_out          \* the list returned

sbvars == <<sb_pc, sb_in, sb_todo, sb_rows, sb_from, sb_out>>

auxvars == <<exvars, hgvars, sgvars, twvars, sbvars>>
jobvars == <<job, mpcvars, plvars, auxvars>>
vars == <<decvars, jobvars>>

\* the ingestion before it starts: nothing read, nothing stored
MpcIdle ==
    /\ cfg = [max_rows |-> 0, batch |-> 1]
    /\ run = "first"
    /\ full = <<>>
    /\ catalog = <<>>
    /\ buffer = <<>>
    /\ total = 0
    /\ reached_limit = FALSE
    /\ table = {}
    /\ sent = <<>>
    /\ mpc_pc = "idle"
    /\ prev = None

\* the planets job before it starts
PlIdle ==
    /\ pl_pc = "idle"
    /\ pl_run = "first"
    /\ pl_day = 1
    /\ pl_rows = <<>>
    /\ r2_settings = FALSE
    /\ planet_catalog = {}
    /\ pl_sent = <<>>
    /\ pl_log = <<>>
    /\ pl_ret = None
    /\ pl_prev = None

Categories == {"numbered", "provisional"}

\* the exporter before it starts
ExIdle ==
    /\ ex_pc = "idle"
    /\ ex_cfg = [max_records |-> 1, max_rows |-> 0, r2 |-> FALSE]
    /\ ex_cursor = <<>>
    /\ ex_read = <<>>
    /\ counts = [c \in Categories |-> 0]
    /\ shard_idx = [c \in Categories |-> 1]
    /\ shard_buf = [c \in Categories |-> <<>>]
    /\ manifest = [c \in Categories |-> <<>>]
    /\ uploaded = <<>>
    /\ rows_yielded = 0
    /\ index_json = None

\* _http_get and _safe_get before they are called
HgIdle ==
    /\ hg_pc = "idle"
    /\ hg_attempt = 0
    /\ hg_responses = <<>>
    /\ last_err = None

SgIdle ==
    /\ sg_pc = "idle"
    /\ sg_attempt = 0
    /\ sg_responses = <<>>

\* daily_tweet before its first run
TwIdle ==
    /\ tw_now = [eastern |-> 1, utc |-> 1]
    /\ reports = <<>>
    /\ tw_posted = <<>>
    /\ tw_exit = None

\* fetch_sbdb before it is called
SbIdle ==
    /\ sb_pc = "idle"
    /\ sb_in = <<>>
    /\ sb_todo = <<>>
    /\ sb_rows = <<>>
    /\ sb_from = <<>>
    /\ sb_out = None

AuxIdle == ExIdle /\ HgIdle /\ SgIdle /\ TwIdle /\ SbIdle

Init ==
    /\ input \in Inputs(MaxDesigTokens, MaxBadFields)
    /\ line = BuildLine(input)
    /\ readable = input.desig
    /\ pc = "is_data_line"
    /\ is_data = None
    /\ basic = None
    /\ parsed = None
    /\ elems = None
    /\ row = None
    /\ job = "decoder"
    /\ MpcIdle
    /\ PlIdle
    /\ AuxIdle

IsDataLine ==
    /\ pc = "is_data_line"
    /\ is_data' = is_data_line(line)
    /\ pc' = "extract_basic_fields"
    /\ UNCHANGED <<input, line, readable, basic, parsed, elems, row>>
    /\ UNCHANGED jobvars

ExtractBasicFields ==
    /\ pc = "extract_basic_fields"
    /\ basic' = extract_basic_fields(line)
    /\ pc' = "parse_readable_designation"
    /\ UNCHANGED <<input, line, readable, is_data, parsed, elems, row>>
    /\ UNCHANGED jobvars

ParseReadableDesignation ==
    /\ pc = "parse_readable_designation"
    /\ parsed' = parse_readable_designation(readable)
    /\ pc' = "extract_orbital_elements"
    /\ UNCHANGED <<input, line, readable, is_data, basic, elems, row>>
    /\ UNCHANGED jobvars

ExtractOrbitalElements ==
    /\ pc = "extract_orbital_elements"
    /\ elems' = extract_orbital_elements(line)
    /\ pc' = "main"
    /\ UNCHANGED <<input, line, readable, is_data, basic, parsed, row>>
    /\ UNCHANGED jobvars

MainLoopBody ==
    /\ pc = "main"
    /\ row' = MainRow(line)
    /\ pc' = "done"
    /\ UNCHANGED <<input, line, readable, is_data, basic, parsed, elems>>
    /\ UNCHANGED jobvars

Next ==
    \/ IsDataLine
    \/ ExtractBasicFields
    \/ ParseReadableDesignation
    \/ ExtractOrbitalElements
    \/ MainLoopBody

Spec == Init /\ [][Next]_vars

\* the steps that have been taken
Classified == pc # "is_data_line"
BasicDone == pc \in {"parse_readable_designation", "extract_orbital_elements", "main", "done"}
ParsedDone == pc \in {"extract_orbital_elements", "main", "done"}
ElemsDone == pc \in {"main", "done"}
Done == pc = "done"


(***************************************************************************)
(* The ingestion loop of mpc_data_fetcher.main and the table it fills      *)
(***************************************************************************)
DesigLine(d) == Input("desig", d, {}, 1, CeresEpoch, Len(CeresLine), " ", <<"\n">>)

\* the lines catalogs are made of: records of numbered and provisional
\* objects, a revised record, a record without designation and a header line
CatalogLines ==
    [ceres    |-> DesigLine(CeresDesig),
     revised  |-> Input("fields", CeresDesig, {"h_mag"}, 1, CeresEpoch, Len(CeresLine),
                        " ", <<"\n">>),
     od436    |-> DesigLine(<<"2", "0", "1", "4", " ", "O", "D", "4", "3", "6">>),
     ab1      |-> DesigLine(<<"2", "0", "1", "4", " ", "A", "B", "1">>),
     numbered |-> DesigLine(<<"(", "1", "0", "0", "0", "0", "1", ")", " ",
                              "2", "0", "1", "4", " ", "O", "D", "4", "3", "6">>),
     unknown  |-> DesigLine(<<"?", "?", "?">>),
     nodesig  |-> DesigLine(<<>>),
     short    |-> Input("trunc", CeresDesig, {}, 1, CeresEpoch, ColStart("readable"),
                        " ", <<"\n">>),
     header   |-> Input("comment", CeresDesig, {}, 1, CeresEpoch, Len(CeresLine),
                        "hash", <<"\n">>)]

\* the record of the same object in a later version of the catalog
LaterLine(k) ==
    IF k = "ceres" THEN "revised" ELSE IF k = "od436" THEN "numbered" ELSE k
LaterCatalog(c) == [i \in DOMAIN c |-> LaterLine(c[i])]

MaxCatalog == 2
\* the catalogs read: up to MaxCatalog lines, no line twice, the header (when
\* the file has one) before the records
Catalogs ==
    {c \in UNION {[1..n -> DOMAIN CatalogLines] : n \in 0..MaxCatalog} :
        /\ \A i, j \in DOMAIN c : c[i] = c[j] => i = j
        /\ \A i \in DOMAIN c : c[i] = "header" => i = 1}

\* MAX_ROWS_INGEST (0: no limit) and UPSERT_BATCH_SIZE, read from the environment
MaxRowsLimit == 2
MaxBatchSize == 2
Configs == [max_rows : 0..MaxRowsLimit, batch : 1..MaxBatchSize]

\* INSERT ... ON CONFLICT (object_id) DO NOTHING
UpsertRow_do_nothing(tbl, r) ==
    IF \E t \in tbl : t.object_id = r.object_id THEN tbl ELSE tbl \cup {r}

\* INSERT ... ON CONFLICT (object_id) DO UPDATE SET every other column
UpsertRow(tbl, r) ==
    IF \E t \in tbl : t.object_id = r.object_id
    THEN {IF t.object_id = r.object_id THEN r ELSE t : t \in tbl}
    ELSE tbl \cup {r}

\* mpc_data_fetcher.upsert_rows: one statement per row, in order
RECURSIVE upsert_rows(_, _)
upsert_rows(tbl, rows) ==
    IF rows = <<>> THEN tbl ELSE upsert_rows(UpsertRow(tbl, Head(rows)), Tail(rows))

\* the rows of one call of upsert_rows, with the outcome of the call
\* (call: the number of the call among all calls; run: the run that made it)
Passed(rows, ok) ==
    [i \in 1..Len(rows) |->
        [row |-> rows[i], stored |-> ok, run |-> run,
         call |-> IF sent = <<>> THEN 1 ELSE sent[Len(sent)].call + 1]]

\* Store with the buffer left as it is after the call
Store_keeps_buffer(buf, rows, ok, limit, next) ==
    /\ sent' = sent \o Passed(rows, ok)
    /\ buffer' = buf
    /\ IF ok
       THEN /\ table' = upsert_rows(table, rows)
            /\ total' = total + Len(rows)
            /\ reached_limit' = limit
            /\ mpc_pc' = next
       ELSE /\ mpc_pc' = "failed"
            /\ UNCHANGED <<table, total, reached_limit>>

\* upsert_rows(conn, rows) called by main with buffer buf: stored and
\* committed, or the statement raises and main ends by the exception
Store(buf, rows, ok, limit, next) ==
    /\ sent' = sent \o Passed(rows, ok)
    /\ IF ok
       THEN /\ table' = upsert_rows(table, rows)
            /\ total' = total + Len(rows)
            /\ buffer' = <<>>
            /\ reached_limit' = limit
            /\ mpc_pc' = next
       ELSE /\ buffer' = buf
            /\ mpc_pc' = "failed"
            /\ UNCHANGED <<table, total, reached_limit>>

\* the body of the loop without the MAX_ROWS_INGEST branches
MpcAppend_no_limit(r) ==
    IF Len(buffer) + 1 >= cfg.batch
    THEN \E ok \in BOOLEAN :
             Store(Append(buffer, r), Append(buffer, r), ok, reached_limit, "loop")
    ELSE /\ buffer' = Append(buffer, r)
         /\ UNCHANGED <<total, reached_limit, table, sent, mpc_pc>>

\* the body of the loop once the line has given a row
MpcAppend(r) ==
    IF cfg.max_rows > 0 /\ total >= cfg.max_rows
    THEN /\ reached_limit' = TRUE
         /\ mpc_pc' = "flush"
         /\ UNCHANGED <<buffer, total, table, sent>>
    ELSE IF cfg.max_rows > 0 /\ total + Len(buffer) + 1 >= cfg.max_rows
    THEN IF cfg.max_rows - total > 0
         THEN \E ok \in BOOLEAN :
                  Store(Append(buffer, r),
                        SubSeq(Append(buffer, r), 1, cfg.max_rows - total), ok, TRUE, "flush")
         ELSE /\ buffer' = <<>>
              /\ reached_limit' = TRUE
              /\ mpc_pc' = "flush"
              /\ UNCHANGED <<total, table, sent>>
    ELSE IF Len(buffer) + 1 >= cfg.batch
    THEN \E ok \in BOOLEAN :
             Store(Append(buffer, r), Append(buffer, r), ok, reached_limit, "loop")
    ELSE /\ buffer' = Append(buffer, r)
         /\ UNCHANGED <<total, reached_limit, table, sent, mpc_pc>>

\* one iteration of  for line in stream_download_and_decompress(MPCORB_URL)
MpcLine ==
    /\ job = "mpc"
    /\ mpc_pc = "loop"
    /\ catalog # <<>>
    /\ catalog' = Tail(catalog)
    /\ LET r == MainRow(BuildLine(CatalogLines[Head(catalog)]))
       IN IF IsNone(r)
          THEN UNCHANGED <<buffer, total, reached_limit, table, sent, mpc_pc>>
          ELSE MpcAppend(Val(r))
    /\ UNCHANGED <<decvars, auxvars, job, cfg, run, full, prev, plvars>>

\* after the loop: the rows left in the buffer are upserted unless the limit
\* ended the loop
MpcFlush ==
    /\ job = "mpc"
    /\ mpc_pc = "flush" \/ (mpc_pc = "loop" /\ catalog = <<>>)
    /\ IF ~reached_limit /\ buffer # <<>>
       THEN \E ok \in BOOLEAN : Store(buffer, buffer, ok, reached_limit, "done")
       ELSE /\ mpc_pc' = "done"
            /\ UNCHANGED <<buffer, total, reached_limit, table, sent>>
    /\ UNCHANGED <<decvars, auxvars, job, cfg, run, full, catalog, prev, plvars>>

\* the job is run again, on the same catalog or on its later version, against
\* the table as the first run left it
MpcAgain ==
    /\ job = "mpc"
    /\ run = "first"
    /\ mpc_pc \in {"done", "failed"}
    /\ run' = "again"
    /\ full' \in {full, LaterCatalog(full)}
    /\ catalog' = full'
    /\ buffer' = <<>>
    /\ total' = 0
    /\ reached_limit' = FALSE
    /\ mpc_pc' = "loop"
    /\ prev' = IF mpc_pc = "done"
               THEN Some([catalog |-> full, count |-> Cardinality(table)])
               ELSE None
    /\ UNCHANGED <<decvars, auxvars, job, cfg, table, sent, plvars>>

(***************************************************************************)
(* update_planets.main and the table pg_upsert fills                       *)
(***************************************************************************)
\* PLANET_DATA: objnum, NAIF id and name, in the order of the dictionary
PLANET_DATA ==
    << [objnum |-> "000100000", id |-> "199", name |-> "Mercury"],
       [objnum |-> "000200000", id |-> "299", name |-> "Venus"],
       [objnum |-> "000300000", id |-> "399", name |-> "Earth"],
       [objnum |-> "000400000", id |-> "499", name |-> "Mars"],
       [objnum |-> "000500000", id |-> "599", name |-> "Jupiter"],
       [objnum |-> "000600000", id |-> "699", name |-> "Saturn"],
       [objnum |-> "000700000", id |-> "799", name |-> "Uranus"],
       [objnum |-> "000800000", id |-> "899", name |-> "Neptune"] >>

\* the planets of PLANET_DATA the model follows
MaxPlanets == 3

\* the row horizons_fetch_planets builds for planet i from the elements of a day
PlanetRow(i, day) ==
    [objnum |-> PLANET_DATA[i].objnum, category |-> "Planet",
     name |-> PLANET_DATA[i].name, naif_id |-> PLANET_DATA[i].id, epoch |-> day]

\* horizons_fetch_planets: the rows of the planets whose request succeeded
\* (set ok), in the order of PLANET_DATA
RECURSIVE FetchedRows(_, _, _)
FetchedRows(i, ok, day) ==
    IF i > MaxPlanets THEN <<>>
    ELSE (IF i \in ok THEN <<PlanetRow(i, day)>> ELSE <<>>) \o FetchedRows(i + 1, ok, day)

\* INSERT ... ON CONFLICT (objnum) DO UPDATE SET every other column
PgUpsertRow(tbl, r) ==
    IF \E t \in tbl : t.objnum = r.objnum
    THEN {IF t.objnum = r.objnum THEN r ELSE t : t \in tbl}
    ELSE tbl \cup {r}

\* update_planets.pg_upsert, when its transaction commits
RECURSIVE pg_upsert(_, _)
pg_upsert(tbl, rows) ==
    IF rows = <<>> THEN tbl ELSE pg_upsert(PgUpsertRow(tbl, Head(rows)), Tail(rows))

Logged(step, ok) == Append(pl_log, [step |-> step, ok |-> ok])

\* 1) rows = horizons_fetch_planets(): a failed request is logged and skipped
PlFetch ==
    /\ job = "planets"
    /\ pl_pc = "fetch"
    /\ \E ok \in SUBSET (1..MaxPlanets) : pl_rows' = FetchedRows(1, ok, pl_day)
    /\ pl_pc' = "csv"
    /\ UNCHANGED <<decvars, auxvars, job, mpcvars, pl_run, pl_day, r2_settings, planet_catalog,
                   pl_sent, pl_log, pl_ret, pl_prev>>

\* 2) write_csv(rows, TMP_CSV_PATH), outside any try: an error ends main
PlWriteCsv ==
    /\ job = "planets"
    /\ pl_pc = "csv"
    /\ \E ok \in BOOLEAN :
           /\ pl_log' = Logged("csv", ok)
           /\ pl_pc' = IF ok THEN "upsert" ELSE "aborted"
    /\ UNCHANGED <<decvars, auxvars, job, mpcvars, pl_run, pl_day, pl_rows, r2_settings,
                   planet_catalog, pl_sent, pl_ret, pl_prev>>

\* PlUpsert without its try/except: an error of pg_upsert ends main
PlUpsert_unguarded ==
    /\ job = "planets"
    /\ pl_pc = "upsert"
    /\ \E ok \in BOOLEAN :
           /\ ok \/ pl_rows # <<>>
           /\ pl_log' = IF ok THEN Logged("upsert", ok) ELSE pl_log
           /\ planet_catalog' = IF ok THEN pg_upsert(planet_catalog, pl_rows)
                                ELSE planet_catalog
           /\ pl_sent' = IF ok THEN pl_sent \o pl_rows ELSE pl_sent
           /\ pl_pc' = IF ok THEN "gcs" ELSE "aborted"
    /\ UNCHANGED <<decvars, auxvars, job, mpcvars, pl_run, pl_day, pl_rows, r2_settings, pl_ret,
                   pl_prev>>

\* 3) n = pg_upsert(rows) in try/except: stored in one transaction or not at
\* all; without rows pg_upsert returns 0 before it connects
PlUpsert ==
    /\ job = "planets"
    /\ pl_pc = "upsert"
    /\ \E ok \in BOOLEAN :
           /\ ok \/ pl_rows # <<>>
           /\ pl_log' = Logged("upsert", ok)
           /\ planet_catalog' = IF ok THEN pg_upsert(planet_catalog, pl_rows)
                                ELSE planet_catalog
           /\ pl_sent' = IF ok THEN pl_sent \o pl_rows ELSE pl_sent
    /\ pl_pc' = "gcs"
    /\ UNCHANGED <<decvars, auxvars, job, mpcvars, pl_run, pl_day, pl_rows, r2_settings, pl_ret,
                   pl_prev>>

\* 4) gcs_upload(...) in try/except
PlGcs ==
    /\ job = "planets"
    /\ pl_pc = "gcs"
    /\ \E ok \in BOOLEAN : pl_log' = Logged("gcs", ok)
    /\ pl_pc' = "r2"
    /\ UNCHANGED <<decvars, auxvars, job, mpcvars, pl_run, pl_day, pl_rows, r2_settings,
                   planet_catalog, pl_sent, pl_ret, pl_prev>>

\* 5) the JSON file is written and, when every R2 setting is present,
\* uploaded, in one try/except; then main returns 0
PlJsonR2 ==
    /\ job = "planets"
    /\ pl_pc = "r2"
    /\ \E json_ok, up_ok \in BOOLEAN :
           pl_log' = IF ~json_ok THEN Logged("json", FALSE)
                     ELSE IF r2_settings
                          THEN Append(Logged("json", TRUE), [step |-> "r2", ok |-> up_ok])
                          ELSE Logged("json", TRUE)
    /\ pl_pc' = "done"
    /\ pl_ret' = Some(0)
    /\ UNCHANGED <<decvars, auxvars, job, mpcvars, pl_run, pl_day, pl_rows, r2_settings,
                   planet_catalog, pl_sent, pl_prev>>

\* the job is run again, the same day or the next, against the table as the
\* first run left it
PlAgain ==
    /\ job = "planets"
    /\ pl_run = "first"
    /\ pl_pc \in {"done", "aborted"}
    /\ pl_run' = "again"
    /\ pl_day' \in {pl_day, pl_day + 1}
    /\ pl_pc' = "fetch"
    /\ pl_rows' = <<>>
    /\ pl_log' = <<>>
    /\ pl_ret' = None
    /\ pl_prev' = IF \E i \in DOMAIN pl_log : pl_log[i] = [step |-> "upsert", ok |-> TRUE]
                  THEN Some([rows |-> pl_rows, count |-> Cardinality(planet_catalog)])
                  ELSE None
    /\ UNCHANGED <<decvars, auxvars, job, mpcvars, r2_settings, planet_catalog, pl_sent>>

PlInit ==
    /\ job = "planets"
    /\ pl_pc = "fetch"
    /\ pl_run = "first"
    /\ pl_day = 1
    /\ pl_rows = <<>>
    /\ r2_settings \in BOOLEAN
    /\ planet_catalog = {}
    /\ pl_sent = <<>>
    /\ pl_log = <<>>
    /\ pl_ret = None
    /\ pl_prev = None

\* the decoder's variables while a job runs
DecoderIdle ==
    /\ input = CatalogLines.ceres
    /\ line = <<>>
    /\ readable = <<>>
    /\ pc = "idle"
    /\ is_data = None
    /\ basic = None
    /\ parsed = None
    /\ elems = None
    /\ row = None

MpcInit ==
    /\ job = "mpc"
    /\ cfg \in Configs
    /\ run = "first"
    /\ full \in Catalogs
    /\ catalog = full
    /\ buffer = <<>>
    /\ total = 0
    /\ reached_limit = FALSE
    /\ table = {}
    /\ sent = <<>>
    /\ mpc_pc = "loop"
    /\ prev = None

JobsInit ==
    /\ DecoderIdle
    /\ AuxIdle
    /\ \/ MpcInit /\ PlIdle
       \/ MpcIdle /\ PlInit

JobsNext ==
    \/ MpcLine
    \/ MpcFlush
    \/ MpcAgain
    \/ PlFetch
    \/ PlWriteCsv
    \/ PlUpsert
    \/ PlGcs
    \/ PlJsonR2
    \/ PlAgain

SpecJobs == JobsInit /\ [][JobsNext]_vars

(***************************************************************************)
(* mpc_data_fetcher.export_json_shards_and_manifest                        *)
(***************************************************************************)
MaxExportRows == 4
MaxShardRecords == 2
MaxExportLimit == 2

\* the rows of the cursor: ORDER BY COALESCE(mp_number, 2147483647), name puts
\* the n rows with a number first and the p rows without one after them
CursorRows(n, p) ==
    [i \in 1..(n + p) |-> [id |-> i, mp_number |-> IF i <= n THEN Some(i) ELSE None]]

Cursors ==
    {CursorRows(q[1], q[2]) :
        q \in {r \in (0..MaxExportRows) \X (0..MaxExportRows) : r[1] + r[2] <= MaxExportRows}}

ExportConfigs ==
    [max_records : 1..MaxShardRecords, max_rows : 0..MaxExportLimit, r2 : BOOLEAN]

cat_for(rec) == IF ~IsNone(rec.mp_number) THEN "numbered" ELSE "provisional"

\* flush that does not advance shard_idx
flush_same_seq(buf, category, ok, next) ==
    IF buf[category] = <<>>
    THEN /\ shard_buf' = buf
         /\ ex_pc' = next
         /\ UNCHANGED <<shard_idx, manifest, uploaded>>
    ELSE IF ok
    THEN /\ uploaded' = Append(uploaded, [category |-> category,
                                          seq |-> shard_idx[category],
                                          records |-> buf[category]])
         /\ manifest' = [manifest EXCEPT ![category] =
                            Append(@, [seq |-> shard_idx[category],
                                       count |-> Len(buf[category])])]
         /\ shard_buf' = [buf EXCEPT ![category] = <<>>]
         /\ shard_idx' = shard_idx
         /\ ex_pc' = next
    ELSE /\ shard_buf' = buf
         /\ ex_pc' = "failed"
         /\ UNCHANGED <<shard_idx, manifest, uploaded>>

\* flush that does not clear the buffer
flush_no_clear(buf, category, ok, next) ==
    IF buf[category] = <<>>
    THEN /\ shard_buf' = buf
         /\ ex_pc' = next
         /\ UNCHANGED <<shard_idx, manifest, uploaded>>
    ELSE IF ok
    THEN /\ uploaded' = Append(uploaded, [category |-> category,
                                          seq |-> shard_idx[category],
                                          records |-> buf[category]])
         /\ manifest' = [manifest EXCEPT ![category] =
                            Append(@, [seq |-> shard_idx[category],
                                       count |-> Len(buf[category])])]
         /\ shard_buf' = buf
         /\ shard_idx' = [shard_idx EXCEPT ![category] = @ + 1]
         /\ ex_pc' = next
    ELSE /\ shard_buf' = buf
         /\ ex_pc' = "failed"
         /\ UNCHANGED <<shard_idx, manifest, uploaded>>

\* flush(category) on the buffers buf: nothing for an empty buffer; else the
\* shard is written and uploaded under the key of shard_idx[category], listed
\* in the manifest, the buffer cleared and shard_idx advanced; an error of the
\* write or of the upload ends the export
flush(buf, category, ok, next) ==
    IF buf[category] = <<>>
    THEN /\ shard_buf' = buf
         /\ ex_pc' = next
         /\ UNCHANGED <<shard_idx, manifest, uploaded>>
    ELSE IF ok
    THEN /\ uploaded' = Append(uploaded, [category |-> category,
                                          seq |-> shard_idx[category],
                                          records |-> buf[category]])
         /\ manifest' = [manifest EXCEPT ![category] =
                            Append(@, [seq |-> shard_idx[category],
                                       count |-> Len(buf[category])])]
         /\ shard_buf' = [buf EXCEPT ![category] = <<>>]
         /\ shard_idx' = [shard_idx EXCEPT ![category] = @ + 1]
         /\ ex_pc' = next
    ELSE /\ shard_buf' = buf
         /\ ex_pc' = "failed"
         /\ UNCHANGED <<shard_idx, manifest, uploaded>>

\* the R2 settings are not all present: the export returns at once
ExSkip ==
    /\ job = "export"
    /\ ex_pc = "start"
    /\ ~ex_cfg.r2
    /\ ex_pc' = "skipped"
    /\ UNCHANGED <<decvars, mpcvars, plvars, job, hgvars, sgvars, twvars, sbvars,
                   ex_cfg, ex_cursor, ex_read, counts, shard_idx, shard_buf, manifest,
                   uploaded, rows_yielded, index_json>>

\* cur.execute(sql)
ExExecute ==
    /\ job = "export"
    /\ ex_pc = "start"
    /\ ex_cfg.r2
    /\ ex_pc' = "loop"
    /\ UNCHANGED <<decvars, mpcvars, plvars, job, hgvars, sgvars, twvars, sbvars,
                   ex_cfg, ex_cursor, ex_read, counts, shard_idx, shard_buf, manifest,
                   uploaded, rows_yielded, index_json>>

\* one iteration of  for row in cur
ExRow ==
    /\ job = "export"
    /\ ex_pc = "loop"
    /\ ex_cursor # <<>>
    /\ ex_cursor' = Tail(ex_cursor)
    /\ ex_read' = Append(ex_read, Head(ex_cursor))
    /\ counts' = [counts EXCEPT ![cat_for(Head(ex_cursor))] = @ + 1]
    /\ rows_yielded' = rows_yielded + 1
    /\ LET category == cat_for(Head(ex_cursor))
           buf == [shard_buf EXCEPT ![category] = Append(@, Head(ex_cursor))]
           next == IF ex_cfg.max_rows # 0 /\ rows_yielded + 1 >= ex_cfg.max_rows
                   THEN "flush_numbered" ELSE "loop"
       IN IF Len(buf[category]) >= ex_cfg.max_records
          THEN \E ok \in BOOLEAN : flush(buf, category, ok, next)
          ELSE /\ shard_buf' = buf
               /\ ex_pc' = next
               /\ UNCHANGED <<shard_idx, manifest, uploaded>>
    /\ UNCHANGED <<decvars, mpcvars, plvars, job, hgvars, sgvars, twvars, sbvars,
                   ex_cfg, index_json>>

\* flush("numbered") after the loop
ExFlushNumbered ==
    /\ job = "export"
    /\ ex_pc = "flush_numbered" \/ (ex_pc = "loop" /\ ex_cursor = <<>>)
    /\ \E ok \in BOOLEAN : flush(shard_buf, "numbered", ok, "flush_provisional")
    /\ UNCHANGED <<decvars, mpcvars, plvars, job, hgvars, sgvars, twvars, sbvars,
                   ex_cfg, ex_cursor, ex_read, counts, rows_yielded, index_json>>

\* flush("provisional") after the loop
ExFlushProvisional ==
    /\ job = "export"
    /\ ex_pc = "flush_provisional"
    /\ \E ok \in BOOLEAN : flush(shard_buf, "provisional", ok, "manifest")
    /\ UNCHANGED <<decvars, mpcvars, plvars, job, hgvars, sgvars, twvars, sbvars,
                   ex_cfg, ex_cursor, ex_read, counts, rows_yielded, index_json>>

\* the manifest with "totals": counts is written and uploaded as index.json
ExManifest ==
    /\ job = "export"
    /\ ex_pc = "manifest"
    /\ \E ok \in BOOLEAN :
           /\ index_json' = IF ok THEN Some([categories |-> manifest, totals |-> counts])
                            ELSE index_json
           /\ ex_pc' = IF ok THEN "done" ELSE "failed"
    /\ UNCHANGED <<decvars, mpcvars, plvars, job, hgvars, sgvars, twvars, sbvars,
                   ex_cfg, ex_cursor, ex_read, counts, shard_idx, shard_buf, manifest,
                   uploaded, rows_yielded>>

ExInit ==
    /\ job = "export"
    /\ ex_pc = "start"
    /\ ex_cfg \in ExportConfigs
    /\ ex_cursor \in Cursors
    /\ ex_read = <<>>
    /\ counts = [c \in Categories |-> 0]
    /\ shard_idx = [c \in Categories |-> 1]
    /\ shard_buf = [c \in Categories |-> <<>>]
    /\ manifest = [c \in Categories |-> <<>>]
    /\ uploaded = <<>>
    /\ rows_yielded = 0
    /\ index_json = None

(***************************************************************************)
(* naif_id_export._http_get and spacetrack_data_fetcher._safe_get          *)
(***************************************************************************)
\* what one GET gives: an HTTP status, or 0 when the call itself raises
\* (no connection, timeout)
Answers == {0, 200, 302, 400, 404, 429, 503}

\* for attempt in range(3)
HTTP_GET_ATTEMPTS == 3

\* r.status_code in (429, 500, 502, 503, 504)
HG_RETRY_STATUSES == {429, 500, 502, 503, 504}

\* one iteration of the loop of _http_get: 200 returns r.json(); a transient
\* status before the last attempt sleeps and continues; every other answer
\* raises inside the try, and the except clause keeps the error in last_err
\* and, before the last attempt, sleeps and lets the loop go on; after the
\* last attempt last_err is raised
HgRequest ==
    /\ job = "http_get"
    /\ hg_pc = "loop"
    /\ \E a \in Answers :
          /\ hg_responses' = Append(hg_responses, a)
          /\ IF a = 200
             THEN /\ hg_pc' = "returned"
                  /\ UNCHANGED <<hg_attempt, last_err>>
             ELSE IF a \in HG_RETRY_STATUSES /\ hg_attempt < 2
             THEN /\ hg_attempt' = hg_attempt + 1
                  /\ UNCHANGED <<hg_pc, last_err>>
             ELSE /\ last_err' = Some(a)
                  /\ hg_attempt' = hg_attempt + 1
                  /\ hg_pc' = IF hg_attempt + 1 >= HTTP_GET_ATTEMPTS THEN "raised"
                              ELSE "loop"
    /\ UNCHANGED <<decvars, mpcvars, plvars, job, exvars, sgvars, twvars, sbvars>>

HgInit ==
    /\ job = "http_get"
    /\ hg_pc = "loop"
    /\ hg_attempt = 0
    /\ hg_responses = <<>>
    /\ last_err = None

\* _safe_get(url, max_attempts = 5)
max_attempts == 5

\* _safe_get that retries on the 5xx statuses only
SG_RETRY_STATUSES_5xx == {500, 502, 503, 504}

\* r.status_code in (429, 500, 502, 503, 504)
SG_RETRY_STATUSES == {429, 500, 502, 503, 504}

\* r.raise_for_status() raises for the statuses 400..599
RaisesForStatus(a) == a >= 400 /\ a < 600

\* one iteration of the loop of _safe_get: an error of S.get leaves the
\* function; a transient status sleeps and continues, and after the last
\* attempt RuntimeError is raised; otherwise raise_for_status() raises or the
\* response is returned
SgRequest ==
    /\ job = "safe_get"
    /\ sg_pc = "loop"
    /\ \E a \in Answers :
          /\ sg_responses' = Append(sg_responses, a)
          /\ IF a = 0
             THEN /\ sg_pc' = "raised_get"
                  /\ UNCHANGED sg_attempt
             ELSE IF a \in SG_RETRY_STATUSES
             THEN /\ sg_attempt' = sg_attempt + 1
                  /\ sg_pc' = IF sg_attempt + 1 >= max_attempts THEN "raised_runtime"
                              ELSE "loop"
             ELSE /\ sg_pc' = IF RaisesForStatus(a) THEN "raised_http" ELSE "returned"
                  /\ UNCHANGED sg_attempt
    /\ UNCHANGED <<decvars, mpcvars, plvars, job, exvars, hgvars, twvars, sbvars>>

SgInit ==
    /\ job = "safe_get"
    /\ sg_pc = "loop"
    /\ sg_attempt = 0
    /\ sg_responses = <<>>

(***************************************************************************)
(* twitter/daily_tweet.py                                                  *)
(***************************************************************************)
MaxDays == 3
MaxReports == 4

\* the days tweets.json has a text for
Scheduled == {1, 2}

\* get_today_key(): the day of datetime.now(eastern), as MM-DD
get_today_key == tw_now.eastern

\* the day log_report and already_logged_success write and look for:
\* datetime.utcnow().strftime("%b %d")
UtcStamp == tw_now.utc

\* already_logged_success(): some line of reports.txt holds today's UTC stamp
\* and "tweet posted successfully" (the tweet texts hold neither)
already_logged_success ==
    \E i \in DOMAIN reports : reports[i].stamp = UtcStamp /\ reports[i].success

\* log_report(success, tweet_text)
log_report(success) == Append(reports, [stamp |-> UtcStamp, success |-> success])

\* one run of main: the environment is complete or not, and create_tweet
\* answers with an id, without one, or raises
TwRun ==
    /\ job = "tweet"
    /\ Len(reports) < MaxReports
    /\ \E env_ok \in BOOLEAN, api \in {"id", "no_id", "raised"} :
          IF ~env_ok
          THEN /\ tw_exit' = Some(1)
               /\ UNCHANGED <<reports, tw_posted>>
          ELSE IF get_today_key \notin Scheduled
          THEN /\ reports' = log_report(FALSE)
               /\ tw_exit' = Some(0)
               /\ UNCHANGED tw_posted
          ELSE IF already_logged_success
          THEN /\ tw_exit' = Some(0)
               /\ UNCHANGED <<reports, tw_posted>>
          ELSE IF api = "id"
          THEN /\ tw_posted' = Append(tw_posted, get_today_key)
               /\ reports' = log_report(TRUE)
               /\ tw_exit' = Some(0)
          ELSE /\ reports' = log_report(FALSE)
               /\ tw_exit' = Some(1)
               /\ UNCHANGED tw_posted
    /\ UNCHANGED <<decvars, mpcvars, plvars, job, exvars, hgvars, sgvars, sbvars, tw_now>>

\* time passes between runs: midnight UTC comes in the evening of the
\* US/Eastern day, midnight US/Eastern four or five hours later
TwTick ==
    /\ job = "tweet"
    /\ IF tw_now.utc = tw_now.eastern
       THEN tw_now' = [tw_now EXCEPT !.utc = @ + 1]
       ELSE /\ tw_now.eastern < MaxDays
            /\ tw_now' = [tw_now EXCEPT !.eastern = @ + 1]
    /\ UNCHANGED <<decvars, mpcvars, plvars, job, exvars, hgvars, sgvars, sbvars,
                   reports, tw_posted, tw_exit>>

TwInit ==
    /\ job = "tweet"
    /\ tw_now = [eastern |-> 1, utc |-> 1]
    /\ reports = <<>>
    /\ tw_posted = <<>>
    /\ tw_exit = None

(***************************************************************************)
(* naif_id_export.fetch_sbdb                                               *)
(***************************************************************************)
MaxRecords == 2

\* the day datetime.now(timezone.utc) falls on, as a day number
Today == 20

NoValue == [kind |-> "none", v |-> 0]
Junk == [kind |-> "junk", v |-> 0]
EmptyText == [kind |-> "empty", v |-> 0]
IntText(n) == [kind |-> "int", v |-> n]
DateText(d) == [kind |-> "date", v |-> d]

\* a record of an SBDB answer with len fields: number or pdes, full_name,
\* last_obs and, in the fallback comet query, the comet flag
SbRecord(len, number, pdes, full_name, last_obs, comet) ==
    [len |-> len, number |-> number, pdes |-> pdes, full_name |-> full_name,
     last_obs |-> last_obs, comet |-> comet]

\* records of the asteroid query (fields number, full_name, last_obs)
AstRecords ==
    {SbRecord(3, IntText(1), "", <<" ", "A">>, DateText(11), NoValue),
     SbRecord(3, IntText(1), "", <<"B", " ">>, NoValue, NoValue),
     SbRecord(3, IntText(2), "", <<"C">>, DateText(9), NoValue),
     SbRecord(3, IntText(2), "", <<"C">>, Junk, NoValue),
     SbRecord(3, IntText(2), "", <<"D">>, DateText(10), NoValue),
     SbRecord(3, NoValue, "", <<"N">>, DateText(11), NoValue),
     SbRecord(2, IntText(1), "", <<"S">>, NoValue, NoValue)}

\* records of the comet queries (fields pdes, full_name, last_obs[, comet])
CometRecords ==
    {SbRecord(3, NoValue, "1P", <<"E", " ">>, DateText(11), NoValue),
     SbRecord(3, NoValue, "2P", <<"F">>, EmptyText, NoValue),
     SbRecord(3, NoValue, "1P", <<"E">>, DateText(9), NoValue),
     SbRecord(4, NoValue, "2P", <<"G">>, DateText(11), IntText(0)),
     SbRecord(4, NoValue, "1P", <<"H">>, NoValue, IntText(1)),
     SbRecord(4, NoValue, "2P", <<"I">>, Junk, Junk),
     SbRecord(2, NoValue, "1P", <<"S">>, NoValue, NoValue)}

SeqsUpTo(S, n) == UNION {[1..k -> S] : k \in 0..n}

\* hash(pdes) of one Python process: any function of the text
Hashes ==
    {[p \in {"1P", "2P"} |-> IF p = "1P" THEN 5 ELSE -900005],
     [p \in {"1P", "2P"} |-> IF p = "1P" THEN -1 ELSE 1799999],
     [p \in {"1P", "2P"} |-> IF p = "1P" THEN 900000 ELSE 899999]}

\* the arguments of fetch_sbdb and the answers of SBDB
SbInputs ==
    {in \in [ast : SeqsUpTo(AstRecords, MaxRecords),
             cmt : SeqsUpTo(CometRecords, MaxRecords),
             days_lookback : {9, 10},
             include_comets : BOOLEAN,
             hash : Hashes] :
        /\ Len(in.ast) + Len(in.cmt) <= MaxRecords
        /\ ~in.include_comets => (in.cmt = <<>> /\ in.hash = CHOOSE h \in Hashes : TRUE)}

\* int(x) in try/except: the integer, or None when int() raises
try_int(x) == IF x.kind = "int" THEN Some(x.v) ELSE None

\* _parse_last_obs(s): None for None and "", the date when strptime accepts
\* the text, None when it raises
parse_last_obs(s) == IF s.kind = "date" THEN Some(s.v) ELSE None

\* cutoff_date
cutoff_date == Today - sb_in.days_lookback

\* the test  dt and dt.date() < cutoff_date  that drops missing dates too
TooOld_or_missing(dt) == IsNone(dt) \/ Val(dt) < cutoff_date

\* dt and dt.date() < cutoff_date
TooOld(dt) == ~IsNone(dt) /\ Val(dt) < cutoff_date

Abs(n) == IF n < 0 THEN -n ELSE n

\* the row the asteroid loop appends for a record, or None when it skips it
AsteroidRow(rec) ==
    IF rec.len < 3 THEN None
    ELSE IF IsNone(try_int(rec.number)) THEN None
    ELSE IF TooOld(parse_last_obs(rec.last_obs)) THEN None
    ELSE Some([object_id |-> 2000000 + Val(try_int(rec.number)),
               name |-> Strip(rec.full_name)])

\* the row the comet loop appends for a record, or None when it skips it
CometRow(rec) ==
    IF rec.len < 3 THEN None
    ELSE IF rec.len >= 4 /\ ~IsNone(try_int(rec.comet)) /\ Val(try_int(rec.comet)) # 1
    THEN None
    ELSE IF TooOld(parse_last_obs(rec.last_obs)) THEN None
    ELSE Some([object_id |-> 1000000 + (Abs(sb_in.hash[rec.pdes]) % 900000),
               name |-> Strip(rec.full_name)])

\* dedup[int(r["object_id"])] = r["name"] for every row, then the items of the
\* dict: keys in the order they were first set, each with the value set last
RECURSIVE Dedup(_, _)
Dedup(rs, out) ==
    IF rs = <<>> THEN out
    ELSE IF \E i \in DOMAIN out : out[i].object_id = Head(rs).object_id
    THEN Dedup(Tail(rs), [i \in DOMAIN out |->
                            IF out[i].object_id = Head(rs).object_id THEN Head(rs)
                            ELSE out[i]])
    ELSE Dedup(Tail(rs), Append(out, Head(rs)))

\* data_ast = _http_get(ast_params)
SbAsteroidsQuery ==
    /\ job = "sbdb"
    /\ sb_pc = "start"
    /\ \E ok \in BOOLEAN :
          /\ sb_pc' = IF ok THEN "asteroids" ELSE "raised"
          /\ sb_todo' = IF ok THEN sb_in.ast ELSE <<>>
    /\ UNCHANGED <<decvars, mpcvars, plvars, job, exvars, hgvars, sgvars, twvars,
                   sb_in, sb_rows, sb_from, sb_out>>

\* one iteration of  for rec in data_ast.get("data", [])
SbAsteroid ==
    /\ job = "sbdb"
    /\ sb_pc = "asteroids"
    /\ sb_todo # <<>>
    /\ sb_todo' = Tail(sb_todo)
    /\ IF IsNone(AsteroidRow(Head(sb_todo)))
       THEN UNCHANGED <<sb_rows, sb_from>>
       ELSE /\ sb_rows' = Append(sb_rows, Val(AsteroidRow(Head(sb_todo))))
            /\ sb_from' = Append(sb_from, Head(sb_todo))
    /\ UNCHANGED <<decvars, mpcvars, plvars, job, exvars, hgvars, sgvars, twvars,
                   sb_in, sb_pc, sb_out>>

\* if include_comets: the comet-only query, and the fallback query when it
\* raises; an error of the fallback leaves fetch_sbdb
SbCometsQuery ==
    /\ job = "sbdb"
    /\ sb_pc = "asteroids"
    /\ sb_todo = <<>>
    /\ IF ~sb_in.include_comets
       THEN /\ sb_pc' = "dedup"
            /\ UNCHANGED sb_todo
       ELSE \E primary_ok \in BOOLEAN, fallback_ok \in BOOLEAN :
               /\ sb_pc' = IF primary_ok \/ fallback_ok THEN "comets" ELSE "raised"
               /\ sb_todo' = IF primary_ok \/ fallback_ok THEN sb_in.cmt ELSE <<>>
    /\ UNCHANGED <<decvars, mpcvars, plvars, job, exvars, hgvars, sgvars, twvars,
                   sb_in, sb_rows, sb_from, sb_out>>

\* one iteration of  for rec in data_cmt.get("data", [])
SbComet ==
    /\ job = "sbdb"
    /\ sb_pc = "comets"
    /\ sb_todo # <<>>
    /\ sb_todo' = Tail(sb_todo)
    /\ IF IsNone(CometRow(Head(sb_todo)))
       THEN UNCHANGED <<sb_rows, sb_from>>
       ELSE /\ sb_rows' = Append(sb_rows, Val(CometRow(Head(sb_todo))))
            /\ sb_from' = Append(sb_from, Head(sb_todo))
    /\ UNCHANGED <<decvars, mpcvars, plvars, job, exvars, hgvars, sgvars, twvars,
                   sb_in, sb_pc, sb_out>>

\* the rows are deduplicated by object_id and returned
SbDedup ==
    /\ job = "sbdb"
    /\ sb_pc = "dedup" \/ (sb_pc = "comets" /\ sb_todo = <<>>)
    /\ sb_out' = Some(Dedup(sb_rows, <<>>))
    /\ sb_pc' = "returned"
    /\ UNCHANGED <<decvars, mpcvars, plvars, job, exvars, hgvars, sgvars, twvars,
                   sb_in, sb_todo, sb_rows, sb_from>>

SbInit ==
    /\ job = "sbdb"
    /\ sb_pc = "start"
    /\ sb_in \in SbInputs
    /\ sb_todo = <<>>
    /\ sb_rows = <<>>
    /\ sb_from = <<>>
    /\ sb_out = None

AuxInit ==
    /\ DecoderIdle
    /\ MpcIdle
    /\ PlIdle
    /\ \/ ExInit /\ HgIdle /\ SgIdle /\ TwIdle /\ SbIdle
       \/ ExIdle /\ HgInit /\ SgIdle /\ TwIdle /\ SbIdle
       \/ ExIdle /\ HgIdle /\ SgInit /\ TwIdle /\ SbIdle
       \/ ExIdle /\ HgIdle /\ SgIdle /\ TwInit /\ SbIdle
       \/ ExIdle /\ HgIdle /\ SgIdle /\ TwIdle /\ SbInit

AuxNext ==
    \/ ExSkip
    \/ ExExecute
    \/ ExRow
    \/ ExFlushNumbered
    \/ ExFlushProvisional
    \/ ExManifest
    \/ HgRequest
    \/ SgRequest
    \/ TwRun
    \/ TwTick
    \/ SbAsteroidsQuery
    \/ SbAsteroid
    \/ SbCometsQuery
    \/ SbComet
    \/ SbDedup

SpecAux == AuxInit /\ [][AuxNext]_vars

(***************************************************************************)
(* Properties of the designation parser                                    *)
(***************************************************************************)
MatchesNumbered(t) == ~IsNone(NUMBERED_RE(t))
MatchesProvisional(t) == PROV_RE(t)
MatchesNeither(t) == ~MatchesNumbered(t) /\ ~MatchesProvisional(t)

\* the integer a text of the numbered grammar starts with
LeadingInteger(t) ==
    LET p == IF t[1] = "(" THEN 2 ELSE 1
    IN BigInt(SubSeq(t, p, FirstOut(t, p, DigitSet) - 1))

\* the first blank-separated token of a text is made of digits only
DigitOnlyPrefix(n) ==
    LET k == FirstOut(n, 1, DigitSet)
    IN k > 1 /\ (k > Len(n) \/ IsSpace(n[k]))

IsSuffix(n, t) == Len(n) <= Len(t) /\ SubSeq(t, Len(t) - Len(n) + 1, Len(t)) = n

\* C1: a designation that matches the provisional grammar gets a Provisional
\* identity: no number, no integer key, and prov_desig = name = the
\* whitespace-normalized text.
C1_ProvisionalIdentity ==
    (ParsedDone /\ MatchesProvisional(readable))
        => /\ parsed.mp_number = None
           /\ parsed.object_id = None
           /\ parsed.prov_desig = Some(JoinSplit(readable))
           /\ parsed.name = Some(JoinSplit(readable))

C3_NumberedRaw ==
    (ParsedDone /\ MatchesNumbered(readable))
        => /\ parsed.mp_number = Some(LeadingInteger(readable))
           /\ parsed.object_id = Some(LeadingInteger(readable))
           /\ parsed.prov_desig = None

\* C3, amended: every text whose whitespace-normalized form matches the
\* numbered grammar gets mp_number = object_id = its leading integer and no
\* provisional designation.
C3_NumberedIdentity ==
    (ParsedDone /\ MatchesNumbered(JoinSplit(readable)))
        => /\ parsed.mp_number = Some(LeadingInteger(JoinSplit(readable)))
           /\ parsed.object_id = Some(LeadingInteger(JoinSplit(readable)))
           /\ parsed.prov_desig = None

C3_NumberedWitness ==
    /\ ParsedDone
    /\ readable = <<"(", "1", "0", "0", "0", "0", "0", ")", " ", "A", "s", "t", "r", "o",
                    "n", "a", "u", "t", "i", "c", "a">>
    /\ MatchesNumbered(JoinSplit(readable))
    /\ parsed.object_id = Some(<<"1", "0", "0", "0", "0", "0">>)

\* C4, as stated: for a text of the numbered grammar the display name is not
\* empty, does not start with "(" and has no digit-only first token.
C4_NameClean ==
    (ParsedDone /\ MatchesNumbered(readable))
        => /\ ~IsNone(parsed.name)
           /\ Val(parsed.name) # <<>>
           /\ Val(parsed.name)[1] # "("
           /\ ~DigitOnlyPrefix(Val(parsed.name))

\* C4, amended: for a text whose normalized form matches the numbered grammar
\* the display name is not empty, has no blank at either end, and is the text
\* that follows the number token (a tail of the normalized text, shorter than
\* it by at least the number and a blank); it starts with "(" or with a
\* digit-only token when the text after the number does.
C4_NameIsRest ==
    (ParsedDone /\ MatchesNumbered(JoinSplit(readable)))
        => /\ ~IsNone(parsed.name)
           /\ Val(parsed.name) # <<>>
           /\ ~IsSpace(Val(parsed.name)[1])
           /\ ~IsSpace(Val(parsed.name)[Len(Val(parsed.name))])
           /\ IsSuffix(Val(parsed.name), JoinSplit(readable))
           /\ Len(Val(parsed.name)) + Len(LeadingInteger(JoinSplit(readable))) + 1
                  <= Len(JoinSplit(readable))

C4_NameWitness ==
    /\ ParsedDone
    /\ readable = <<"(", "1", "0", "0", "0", "0", "1", ")", " ", "1", "9", "9", "8", " ",
                    "K", "D", "3">>
    /\ MatchesNumbered(JoinSplit(readable))
    /\ parsed.name = Some(<<"1", "9", "9", "8", " ", "K", "D", "3">>)
    /\ DigitOnlyPrefix(Val(parsed.name))

(***************************************************************************)
(* Properties of the epoch column                                          *)
(***************************************************************************)
\* the packed-epoch format of the MPC: century letter, two digits of the year,
\* month code 1-9 A-C, day code 1-9 A-V
CenturyOf == [I |-> 1800, J |-> 1900, K |-> 2000, L |-> 2100]
CodeValue(c) == IF IsDigit(c) THEN DigitVal(c) ELSE IndexOf(UpperChars, c) + 9

ValidPackedEpoch(c) ==
    /\ Len(c) = 5
    /\ c[1] \in DOMAIN CenturyOf
    /\ IsDigit(c[2]) /\ IsDigit(c[3])
    /\ (IsDigit(c[4]) \/ IsUpper(c[4])) /\ CodeValue(c[4]) \in 1..12
    /\ (IsDigit(c[5]) \/ IsUpper(c[5])) /\ CodeValue(c[5]) \in 1..31

PackedYear(c) == CenturyOf[c[1]] + 10 * DigitVal(c[2]) + DigitVal(c[3])

IsLeap(y) == (y % 4 = 0 /\ y % 100 # 0) \/ y % 400 = 0
DaysIn(y, m) ==
    IF m = 2 THEN (IF IsLeap(y) THEN 29 ELSE 28)
    ELSE IF m \in {4, 6, 9, 11} THEN 30 ELSE 31

\* the Modified Julian Date of a Gregorian calendar date at 0h
CivilMJD(y, m, d) ==
    LET a  == (14 - m) \div 12
        yy == y + 4800 - a
        mm == m + 12 * a - 3
    IN d + (153 * mm + 2) \div 5 + 365 * yy + yy \div 4 - yy \div 100 + yy \div 400
         - 32045 - 2400001

PackedEpochMJD(c) == CivilMJD(PackedYear(c), CodeValue(c[4]), CodeValue(c[5]))

EpochColumn == Slice(line, ColStart("epoch_mjd"), ColEnd("epoch_mjd"))

\* C5: a valid packed epoch in columns [20,25) is decoded to a non-null
\* epoch_mjd, the Modified Julian Date of its calendar date at 0h.
C5_PackedEpochDecoded ==
    (ElemsDone /\ Len(line) >= ColEnd("epoch_mjd") /\ ValidPackedEpoch(EpochColumn))
        => /\ ~IsNone(elems.epoch_mjd)
           /\ CodeValue(EpochColumn[5]) <= DaysIn(PackedYear(EpochColumn),
                                                   CodeValue(EpochColumn[4]))
                  => elems.epoch_mjd = Some(PackedEpochMJD(EpochColumn))

\* C6: whatever is not a valid packed epoch (or a line shorter than 25
\* characters) gives epoch_mjd = None.
C6_InvalidEpochNone ==
    (ElemsDone /\ (Len(line) < ColEnd("epoch_mjd") \/ ~ValidPackedEpoch(EpochColumn)))
        => elems.epoch_mjd = None

(***************************************************************************)
(* Properties of the numeric columns                                       *)
(***************************************************************************)
\* the value the input puts in a numeric column, None where it is not a number
ColumnValue(in, f) ==
    IF in.fam = "blank" \/ f \in in.bad THEN None ELSE Some(CeresValue[f])

\* the decoded value of a numeric column
Decoded(f) ==
    IF f = "h_mag" THEN basic.h ELSE IF f = "g_slope" THEN basic.g ELSE elems[f]

\* C7: an orbital element whose columns [a,b) the line does not reach
\* (len(line) < b) is None, and every element whose columns the text of the
\* line holds in full has the value written there.
C7_ShortLineElements ==
    ElemsDone =>
        \A f \in ElementNames :
            /\ Len(line) < ColEnd(f) => elems[f] = None
            /\ input.len >= ColEnd(f) => elems[f] = ColumnValue(input, f)

C7_ShortLineWitness ==
    /\ ElemsDone
    /\ input.fam = "trunc"
    /\ Len(line) = ColEnd("eccentricity")
    /\ elems["mean_daily_motion_deg"] = None
    /\ elems["semimajor_axis_au"] = None
    /\ elems["eccentricity"] = Some(CeresValue["eccentricity"])
    /\ elems["mean_anomaly_deg"] = Some(CeresValue["mean_anomaly_deg"])

\* C8: a column whose content is not a number decodes to None and every other
\* numeric column of the line (H, G and the seven elements) decodes to the
\* value written in it.
C8_FieldIsolation ==
    (ElemsDone /\ input.fam = "fields") =>
        \A f \in NumericFields :
            (input.len >= ColEnd(f) /\ input.len >= ColEnd("g_slope"))
                => Decoded(f) = ColumnValue(input, f)

C8_FieldIsolationWitness ==
    /\ ElemsDone
    /\ input.fam = "fields"
    /\ input.len = Len(CeresLine)
    /\ input.bad = {"eccentricity", "h_mag"}
    /\ elems["eccentricity"] = None
    /\ basic.h = None
    /\ basic.g = Some(CeresValue["g_slope"])
    /\ \A f \in ElementNames \ {"eccentricity"} : elems[f] = Some(CeresValue[f])

(***************************************************************************)
(* Properties of the classifier                                            *)
(***************************************************************************)
\* C9: an empty line and a line of whitespace only (blanks, tabs, CR, LF) is
\* not a data line.
C9_BlankRejected ==
    (Classified /\ \A i \in 1..Len(line) : line[i] \in {" ", "\t", "\r", "\n"})
        => is_data = FALSE

\* C10, as stated: a line of at most 166 characters is not a data line.
C10_ShortRejected ==
    (Classified /\ Len(line) <= ColStart("readable")) => is_data = FALSE

\* C10, amended: a line that, without the CR and LF at its ends, has at most
\* 40 characters is not a data line; longer lines up to 169 characters pass
\* is_data_line but yield no row, so every row comes from a line of at least
\* 170 characters whose text holds every orbital-element column in full.
C10_MinimumWidth ==
    /\ (Classified /\ Len(StripSet(line, CRLF)) <= 40) => is_data = FALSE
    /\ (Done /\ row # None)
           => /\ Len(line) >= 170
              /\ \A f \in ElementNames \cup {"epoch_mjd"} :
                     Len(Val(row).raw_line) >= ColEnd(f)

C10_ShortAcceptedWitness ==
    /\ Done
    /\ is_data = TRUE
    /\ Len(line) <= ColStart("readable")
    /\ Len(line) < ColEnd("semimajor_axis_au")
    /\ row = None

\* C11: a line that starts with "#" or with "---" is not a data line, whatever
\* its length and the rest of its content.
C11_CommentRejected ==
    (Classified /\ (StartsWith(line, <<"#">>) \/ StartsWith(line, <<"-", "-", "-">>)))
        => is_data = FALSE

C11_CommentWitness ==
    /\ Classified
    /\ input.fam = "comment"
    /\ StartsWith(line, <<"-", "-", "-">>)
    /\ Len(StripSet(line, CRLF)) = Len(CeresLine)
    /\ is_data = FALSE

(***************************************************************************)
(* Properties of the row built from a line                                 *)
(***************************************************************************)
\* the identity main gives a line: None when the line yields no row
IdentityPart(r) ==
    IF IsNone(r) THEN None
    ELSE Some([mp_number |-> Val(r).mp_number, prov_desig |-> Val(r).prov_desig,
               name |-> Val(r).name, object_id |-> Val(r).object_id])

\* the line with its photometry, epoch and element columns [8,103) replaced
\* by those of the record of (1) Ceres
ReferenceLine(l) ==
    Overlay(l, ColStart("h_mag"),
            SubSeq(CeresLine, ColStart("h_mag") + 1, ColEnd("semimajor_axis_au")))

AllNumericNone ==
    /\ \A f \in NumericFields : Decoded(f) = None
    /\ elems.epoch_mjd = None

\* C14: a line of at least 170 characters gets the identity (mp_number,
\* prov_desig, name, key; or no row) of the line that has the same designation
\* columns and other photometry, epoch and element columns; a line whose H, G,
\* epoch and elements all decode to None is kept when its designation is not blank.
C14_IdentityFromDesignation ==
    (Done /\ Len(line) >= 170)
        => /\ \/ line = ReferenceLine(line)
              \/ IdentityPart(row) = IdentityPart(MainRow(ReferenceLine(line)))
           /\ (input.fam = "allbad" /\ JoinSplit(input.desig) # <<>>)
                  => (AllNumericNone /\ row # None)

C14_AllNoneKeptWitness ==
    /\ Done
    /\ input.fam = "allbad"
    /\ line # ReferenceLine(line)
    /\ AllNumericNone
    /\ row # None
    /\ Val(row).mp_number = Some(<<"1", "0", "0", "0", "0", "0">>)
    /\ Val(row).object_id = <<"1", "0", "0", "0", "0", "0">>

\* C16: a data line that ends in a "(NNNNN) Name" designation resolves to the
\* numbered object NNNNN and yields a row, also when its designation columns
\* [166,194) are blank or missing.
C16_TrailingDesignation ==
    (Done /\ input.fam = "tail")
        => /\ row # None
           /\ Val(row).mp_number = Some(LeadingInteger(input.desig))
           /\ Val(row).object_id = LeadingInteger(input.desig)

\* C17: the row of a line carries the line without its CR/LF end as raw_line
\* and the stripped designation columns as packed_desig, also when H, G, the
\* epoch and every element are None.
C17_RawRetained ==
    (Done /\ row # None)
        => /\ Val(row).raw_line \o input.eol = line
           /\ Val(row).packed_desig = Some(Strip(Slice(line, 166, 194)))
           /\ input.fam \in {"desig", "allbad"}
                  => Val(row).packed_desig = Some(Strip(input.desig))

C17_RawRetainedWitness ==
    /\ Done
    /\ input.fam = "allbad"
    /\ input.eol = <<"\r", "\n">>
    /\ AllNumericNone
    /\ row # None
    /\ Val(row).raw_line \o <<"\r", "\n">> = line
    /\ Val(row).packed_desig = Some(<<"2", "0", "1", "4", " ", "O", "D", "4", "3", "6">>)

(***************************************************************************)
(* Properties of the ingestion loop and of the table                       *)
(***************************************************************************)
\* the rows passed to upsert_rows so far
SentRows == {sent[i].row : i \in DOMAIN sent}

\* the designation columns of the line a row was built from
DesigSlice(r) == Slice(r.raw_line, ColStart("readable"), ColEnd("readable"))

\* C12: every row passed to upsert_rows has a non-empty name and a non-empty
\* key, and comes from a line whose designation columns are present and not
\* blank.
C12_RowsNamedAndKeyed ==
    \A r \in SentRows :
        /\ r.name # <<>>
        /\ r.object_id # <<>>
        /\ Len(r.raw_line) > ColStart("readable")
        /\ Strip(DesigSlice(r)) # <<>>

C12_RowsWitness ==
    /\ mpc_pc = "done"
    /\ full = <<"nodesig", "ceres">>
    /\ Len(sent) = 1
    /\ sent[1].row.object_id = <<"1">>
    /\ sent[1].row.name = <<"C", "e", "r", "e", "s">>
    /\ Cardinality(table) = 1

\* C13: rows whose lines have different whitespace-normalized designations
\* have different keys.
C13_DistinctKeys ==
    \A r1, r2 \in SentRows :
        JoinSplit(DesigSlice(r1)) # JoinSplit(DesigSlice(r2))
            => r1.object_id # r2.object_id

\* the row of a provisional object: no number and a provisional designation,
\* or built from a line whose designation has the provisional grammar
ProvisionalRow(r) ==
    \/ r.mp_number = None /\ r.prov_desig # None
    \/ MatchesProvisional(JoinSplit(DesigSlice(r)))

\* C15: the settings of the ingestion hold an include_provisional flag, and
\* the row of a provisional object is passed to upsert_rows only when the flag
\* is true.
C15_ProvisionalExcluded ==
    (\E r \in SentRows : ProvisionalRow(r))
        => ("include_provisional" \in DOMAIN cfg /\ cfg.include_provisional)

\* the positions of sent whose call of upsert_rows committed a row with key k
StoredAt(k) == {i \in DOMAIN sent : sent[i].stored /\ sent[i].row.object_id = k}
LastStored(k) == sent[CHOOSE i \in StoredAt(k) : \A j \in StoredAt(k) : j <= i].row

PlStoredAt(k) == {i \in DOMAIN pl_sent : pl_sent[i].objnum = k}
PlLastStored(k) == pl_sent[CHOOSE i \in PlStoredAt(k) : \A j \in PlStoredAt(k) : j <= i]

\* C18: after any sequence of upsert batches each table holds one row per key
\* stored so far, which is the record stored last with that key, and a run
\* that repeats a completed run on the same input leaves the number of rows
\* as it was.
C18_IdempotentLoads ==
    /\ \A t1, t2 \in table : t1.object_id = t2.object_id => t1 = t2
    /\ \A i \in DOMAIN sent : sent[i].stored => \E t \in table : t.object_id = sent[i].row.object_id
    /\ \A t \in table : StoredAt(t.object_id) # {} /\ t = LastStored(t.object_id)
    /\ \A t1, t2 \in planet_catalog : t1.objnum = t2.objnum => t1 = t2
    /\ \A i \in DOMAIN pl_sent : \E t \in planet_catalog : t.objnum = pl_sent[i].objnum
    /\ \A t \in planet_catalog : PlStoredAt(t.objnum) # {} /\ t = PlLastStored(t.objnum)
    /\ (mpc_pc = "done" /\ prev # None /\ full = Val(prev).catalog)
           => Cardinality(table) = Val(prev).count
    /\ (pl_pc = "done" /\ pl_prev # None /\ pl_rows = Val(pl_prev).rows)
           => Cardinality(planet_catalog) = Val(pl_prev).count

C18_RerunWitness ==
    /\ mpc_pc = "done"
    /\ run = "again"
    /\ prev = Some([catalog |-> <<"ceres", "revised">>, count |-> 1])
    /\ full = <<"ceres", "revised">>
    /\ Len(sent) = 4
    /\ \A i \in DOMAIN sent : sent[i].stored
    /\ Cardinality(table) = 1
    /\ \A t \in table : t.h_mag = None

\* C19: once a later version of the catalog has been ingested in which the
\* object "2014 OD436" is numbered, the table holds no row of its provisional
\* record next to the numbered row.
C19_NumberedSupersedes ==
    (/\ mpc_pc = "done"
     /\ run = "again"
     /\ \E t \in table : t.mp_number = Some(<<"1", "0", "0", "0", "0", "1">>))
        => ~\E t \in table :
               JoinSplit(DesigSlice(t)) = <<"2", "0", "1", "4", " ", "O", "D", "4", "3", "6">>

(***************************************************************************)
(* Properties of update_planets.main                                       *)
(***************************************************************************)
\* the steps this run has attempted, in order
StepsTried == [i \in DOMAIN pl_log |-> pl_log[i].step]

StepOk(step) == \E i \in DOMAIN pl_log : pl_log[i] = [step |-> step, ok |-> TRUE]

\* the upsert, the GCS upload and the JSON step were attempted once each, in
\* that order, with the R2 upload after them exactly when every R2 setting is
\* present and the JSON file was written
ThreeStepsTried ==
    /\ StepsTried \in {<<"csv", "upsert", "gcs", "json">>,
                       <<"csv", "upsert", "gcs", "json", "r2">>}
    /\ ("r2" \in Range(StepsTried)) <=> (r2_settings /\ StepOk("json"))

\* C20, as stated: every run of main attempts the three steps in order and
\* returns 0.
C20_EveryRun ==
    pl_pc \in {"done", "aborted"} => (ThreeStepsTried /\ pl_ret = Some(0))

\* C20, amended: a run whose CSV file was written attempts the upsert, the GCS
\* upload and the JSON/R2 step once each and in that order whatever their
\* outcomes, and returns 0; a run ends without them only by an error of the
\* CSV step.
C20_StepsInOrder ==
    /\ pl_pc = "done" => (ThreeStepsTried /\ StepOk("csv") /\ pl_ret = Some(0))
    /\ pl_pc = "aborted" => pl_log = <<[step |-> "csv", ok |-> FALSE]>>
    /\ pl_pc = "gcs" => StepsTried = <<"csv", "upsert">>
    /\ pl_pc = "r2" => StepsTried = <<"csv", "upsert", "gcs">>
    /\ pl_pc # "done" => pl_ret = None

C20_AllFailedWitness ==
    /\ pl_pc = "done"
    /\ pl_ret = Some(0)
    /\ r2_settings
    /\ pl_log = <<[step |-> "csv", ok |-> TRUE], [step |-> "upsert", ok |-> FALSE],
                  [step |-> "gcs", ok |-> FALSE], [step |-> "json", ok |-> TRUE],
                  [step |-> "r2", ok |-> FALSE]>>

(***************************************************************************)
(* Properties of the batches of the ingestion loop                         *)
(***************************************************************************)
\* the rows this run has passed to upsert_rows, in order
RunSent == SelectSeq(sent, LAMBDA e : e.run = run)
RunRows == [i \in DOMAIN RunSent |-> RunSent[i].row]

\* the rows built from the lines of the catalog that pass is_data_line and the
\* name/key check, in input order
RECURSIVE KeptRows(_)
KeptRows(c) ==
    IF c = <<>> THEN <<>>
    ELSE LET r == MainRow(BuildLine(CatalogLines[Head(c)]))
         IN IF IsNone(r) THEN KeptRows(Tail(c)) ELSE <<Val(r)>> \o KeptRows(Tail(c))

Min(a, b) == IF a <= b THEN a ELSE b

\* the number of rows of this run passed in call number k
BatchLen(k) == Cardinality({i \in DOMAIN RunSent : RunSent[i].call = k})

\* C21: with MAX_ROWS_INGEST = N > 0 the rows passed to upsert_rows by a run
\* never number more than N; when the loop has ended they are the first
\* min(N, kept) kept rows in input order and total is their number.
C21_LimitRespected ==
    cfg.max_rows > 0 =>
        /\ Len(RunSent) <= cfg.max_rows
        /\ mpc_pc = "done" =>
              LET kept == KeptRows(full)
              IN /\ Len(RunRows) = Min(cfg.max_rows, Len(kept))
                 /\ RunRows = SubSeq(kept, 1, Len(RunRows))
                 /\ total = Len(RunRows)

C21_LimitCutsWitness ==
    /\ mpc_pc = "done"
    /\ cfg = [max_rows |-> 1, batch |-> 2]
    /\ full = <<"od436", "ceres">>
    /\ reached_limit
    /\ total = 1
    /\ Len(RunSent) = 1
    /\ RunSent[1].row.name = <<"O", "D", "4", "3", "6">>

\* C22: with MAX_ROWS_INGEST = 0, when the loop has ended the batches passed
\* to upsert_rows, put end to end, are the kept rows in input order, each batch
\* has at most UPSERT_BATCH_SIZE rows, the buffer is empty and total is the
\* number of kept rows.
C22_BatchesCoverKept ==
    (cfg.max_rows = 0 /\ mpc_pc = "done") =>
        /\ buffer = <<>>
        /\ total = Len(RunRows)
        /\ \A i \in DOMAIN RunSent : BatchLen(RunSent[i].call) <= cfg.batch
        /\ RunRows = KeptRows(full)

C22_TwoBatchesWitness ==
    /\ mpc_pc = "done"
    /\ cfg = [max_rows |-> 0, batch |-> 1]
    /\ run = "first"
    /\ full = <<"ceres", "ab1">>
    /\ Len(sent) = 2
    /\ sent[1].call = 1 /\ sent[2].call = 2
    /\ total = 2

(***************************************************************************)
(* Properties of the shard export                                          *)
(***************************************************************************)
\* the shards uploaded for a category, in order
ShardsOf(c) == SelectSeq(uploaded, LAMBDA u : u.category = c)

RECURSIVE Flatten(_)
Flatten(ss) == IF ss = <<>> THEN <<>> ELSE Head(ss).records \o Flatten(Tail(ss))

RECURSIVE SumCounts(_)
SumCounts(ms) == IF ms = <<>> THEN 0 ELSE Head(ms).count + SumCounts(Tail(ms))

\* C23: every uploaded shard is non-empty and holds at most
\* R2_MAX_JSON_RECORDS records, and the shards of a category are numbered
\* 1, 2, 3, ... in the order they were uploaded.
C23_ShardsBoundedAndNumbered ==
    /\ \A i \in DOMAIN uploaded :
          /\ uploaded[i].records # <<>>
          /\ Len(uploaded[i].records) <= ex_cfg.max_records
    /\ \A c \in Categories : \A k \in DOMAIN ShardsOf(c) : ShardsOf(c)[k].seq = k

C23_ThreeShardsWitness ==
    /\ ex_cfg.max_records = 2
    /\ Len(ShardsOf("numbered")) = 2
    /\ Len(ShardsOf("numbered")[2].records) = 1
    /\ Len(ShardsOf("provisional")) = 1
    /\ ex_pc = "manifest"

\* C24: when the manifest has been written, for each category the counts of
\* the shards it lists add up to totals[category] and the shards uploaded hold
\* the rows read of that category once each and in order; the buffers are
\* empty and the two totals add up to the number of rows read.
C24_NothingLostOrTwice ==
    ~IsNone(index_json) =>
        /\ \A c \in Categories :
              /\ SumCounts(Val(index_json).categories[c]) = Val(index_json).totals[c]
              /\ Flatten(ShardsOf(c)) = SelectSeq(ex_read, LAMBDA r : cat_for(r) = c)
              /\ shard_buf[c] = <<>>
        /\ Val(index_json).totals["numbered"] + Val(index_json).totals["provisional"]
              = Len(ex_read)
        /\ rows_yielded = Len(ex_read)

C24_LimitedExportWitness ==
    /\ ~IsNone(index_json)
    /\ ex_cfg = [max_records |-> 2, max_rows |-> 2, r2 |-> TRUE]
    /\ Len(ex_cursor) = 2
    /\ Val(index_json).totals = [c \in Categories |-> 1]
    /\ Len(uploaded) = 2

(***************************************************************************)
(* Properties of the retry loops                                           *)
(***************************************************************************)
\* the statuses the two loops are to retry on
TransientStatuses == {429, 500, 502, 503, 504}

\* C25: _http_get makes at most 3 requests, and a status that is neither 200
\* nor transient is the last answer it asks for: the error is raised with no
\* further request.
C25_RetryOnlyTransient ==
    /\ Len(hg_responses) <= 3
    /\ \A i \in DOMAIN hg_responses :
          (hg_responses[i] # 0 /\ hg_responses[i] \notin TransientStatuses \cup {200})
              => (i = Len(hg_responses) /\ hg_pc = "raised")

\* C26: _safe_get makes at most max_attempts requests, one per attempt; every
\* answer before the last is a transient status; it returns only a status that
\* is neither transient nor an HTTP error, raises at once on a non-transient
\* HTTP error, and raises RuntimeError exactly after max_attempts transient
\* answers.
C26_SafeGetBounded ==
    /\ Len(sg_responses) <= max_attempts
    /\ \A i \in 1..(Len(sg_responses) - 1) : sg_responses[i] \in TransientStatuses
    /\ sg_pc = "loop" =>
          /\ sg_attempt = Len(sg_responses)
          /\ sg_attempt < max_attempts
          /\ \A i \in DOMAIN sg_responses : sg_responses[i] \in TransientStatuses
    /\ sg_pc = "returned" =>
          LET a == sg_responses[Len(sg_responses)]
          IN a \notin TransientStatuses /\ a # 0 /\ ~(a >= 400 /\ a < 600)
    /\ sg_pc = "raised_http" =>
          LET a == sg_responses[Len(sg_responses)]
          IN a \notin TransientStatuses /\ a >= 400 /\ a < 600
    /\ sg_pc = "raised_runtime" <=>
          /\ Len(sg_responses) = max_attempts
          /\ \A i \in DOMAIN sg_responses : sg_responses[i] \in TransientStatuses

C26_ReturnAfterRetriesWitness ==
    /\ sg_pc = "returned"
    /\ sg_responses = <<429, 503, 503, 429, 302>>

(***************************************************************************)
(* Properties of daily_tweet                                               *)
(***************************************************************************)
\* C27: over any sequence of runs the tweet of a day (its US/Eastern MM-DD key)
\* is posted at most once.
C27_PostedOncePerDay ==
    \A d \in 1..MaxDays : Cardinality({i \in DOMAIN tw_posted : tw_posted[i] = d}) <= 1

(***************************************************************************)
(* Properties of fetch_sbdb                                                *)
(***************************************************************************)
\* the record's last_obs is a date before the cutoff
ObservedBeforeCutoff(rec) ==
    rec.last_obs.kind = "date" /\ rec.last_obs.v < Today - sb_in.days_lookback

\* the record has its three fields and no readable date in last_obs, and
\* nothing else about it makes the loops pass over it
UndatedAsteroid(rec) ==
    rec.len >= 3 /\ rec.number.kind = "int" /\ rec.last_obs.kind # "date"
UndatedComet(rec) ==
    rec.len >= 3 /\ rec.last_obs.kind # "date" /\ (rec.comet.kind = "int" => rec.comet.v = 1)

\* the last position of sb_rows with the object_id
LastRowWith(id) ==
    CHOOSE k \in DOMAIN sb_rows :
        /\ sb_rows[k].object_id = id
        /\ \A j \in DOMAIN sb_rows : sb_rows[j].object_id = id => j <= k

\* C28: the list returned has one row per object_id, named after the last
\* record met with that id; a row made from an asteroid record has
\* object_id = 2000000 + number, a row made from a comet record has an
\* object_id from 1000000 up to 1899999; no row is made from a record last
\* observed before the cutoff, and a record with a missing or unreadable
\* last_obs gets its row.
C28_SbdbRows ==
    /\ \A k \in DOMAIN sb_rows :
          /\ sb_from[k].pdes = "" =>
                /\ sb_from[k].number.kind = "int"
                /\ sb_rows[k].object_id = 2000000 + sb_from[k].number.v
          /\ sb_from[k].pdes # "" =>
                /\ sb_rows[k].object_id >= 1000000
                /\ sb_rows[k].object_id < 1900000
          /\ ~ObservedBeforeCutoff(sb_from[k])
    /\ sb_pc = "returned" =>
          /\ \A i, j \in DOMAIN Val(sb_out) :
                Val(sb_out)[i].object_id = Val(sb_out)[j].object_id => i = j
          /\ {Val(sb_out)[i].object_id : i \in DOMAIN Val(sb_out)}
                = {sb_rows[k].object_id : k \in DOMAIN sb_rows}
          /\ \A i \in DOMAIN Val(sb_out) :
                Val(sb_out)[i].name
                    = Strip(sb_from[LastRowWith(Val(sb_out)[i].object_id)].full_name)
          /\ \A i \in DOMAIN sb_in.ast :
                UndatedAsteroid(sb_in.ast[i]) => sb_in.ast[i] \in Range(sb_from)
          /\ \A i \in DOMAIN sb_in.cmt :
                UndatedComet(sb_in.cmt[i]) => sb_in.cmt[i] \in Range(sb_from)

C28_LastNameKeptWitness ==
    /\ sb_pc = "returned"
    /\ Len(sb_rows) = 2
    /\ sb_from[1].last_obs = DateText(11)
    /\ sb_from[2].last_obs = NoValue
    /\ Val(sb_out) = <<[object_id |-> 2000001, name |-> <<"B">>]>>

=============================================================================
